---- MODULE Spec2Model ----
(***************************************************************************)
(* State-machine model of nig/upload.py: the request() retry loop, the     *)
(* upload() command and upload_study() with its chunked file upload.       *)
(* One action per code block between two calls of request(); request()     *)
(* itself is the pair RequestResponse / RequestException.                  *)
(***************************************************************************)
EXTENDS Integers, Sequences, FiniteSets, TLC

(* ---------------------------------------------------------------------- *)
(* Program constants                                                       *)
(* ---------------------------------------------------------------------- *)
GET == "get"
POST == "post"
PUT == "put"
PATCH == "patch"

MB == 1048576

\* variant of the number of attempts of request(): one more
MAX_RETRIES_4 == 3 + 1

MAX_RETRIES == 3

(* ---------------------------------------------------------------------- *)
(* Bounds and input sets                                                   *)
(* ---------------------------------------------------------------------- *)
MaxStudies == 2

\* --chunk-size values accepted by upload() (only chunk_size > 16 is refused)
ChunkSizes == {0, 8, 16}

\* public addresses get_ip() (https://ident.me) may report
IPs == {"ip1", "ip2"}

\* the public address at the start of the run (the names are arbitrary)
HomeIP == "ip1"

\* status codes a server response may carry
StatusCodes == {200, 201, 204, 206, 500}

NoRange == <<>>

\* a parsed pedigree row (parse_file_ped: properties)
Phen(n, bp) == [name |-> n, birth_place_name |-> bp, uuid |-> FALSE]

\* a parsed technical row (parse_file_tech: technical)
Tech(n, hasDs, ds) == [name |-> n, hasDatasets |-> hasDs, datasets |-> ds, uuid |-> FALSE]

Dir(n, fs) == [name |-> n, files |-> fs]

Rel(son, parents) == [son |-> son, parents |-> parents]

\* Local study directories: name, sub-directories with the sizes of their
\* qualifying files, and the parsed content of pedigree.txt / technical.txt.
StudyFull ==
  [name |-> "s1",
   dirs |-> << Dir("A", <<40 * MB>>), Dir("B", <<1, 2 * MB + 1>>) >>,
   hasPed |-> TRUE, pedError |-> FALSE,
   phenotypes |-> << Phen("A", TRUE), Phen("B", FALSE) >>,
   relationships |-> << Rel("A", <<"B">>) >>,
   hasTech |-> TRUE, techError |-> FALSE,
   technicals |-> << Tech("T1", FALSE, <<>>) >>]

StudyPlain ==
  [name |-> "s2",
   dirs |-> << Dir("C", <<16 * MB + 1>>) >>,
   hasPed |-> FALSE, pedError |-> FALSE,
   phenotypes |-> <<>>, relationships |-> <<>>,
   hasTech |-> FALSE, techError |-> FALSE,
   technicals |-> <<>>]

StudyTwoTech ==
  [name |-> "s3",
   dirs |-> << Dir("A", <<1>>), Dir("B", <<2 * MB>>), Dir("C", <<1>>) >>,
   hasPed |-> TRUE, pedError |-> FALSE,
   phenotypes |-> << Phen("B", FALSE) >>,
   relationships |-> <<>>,
   hasTech |-> TRUE, techError |-> FALSE,
   technicals |-> << Tech("T1", TRUE, <<"A">>), Tech("T2", TRUE, <<"B", "C">>) >>]

StudyBadPed ==
  [name |-> "s4",
   dirs |-> << Dir("A", <<1>>) >>,
   hasPed |-> TRUE, pedError |-> TRUE,
   phenotypes |-> <<>>, relationships |-> <<>>,
   hasTech |-> FALSE, techError |-> FALSE,
   technicals |-> <<>>]

StudyTooManyFiles ==
  [name |-> "s5",
   dirs |-> << Dir("A", <<1, 1, 1>>) >>,
   hasPed |-> FALSE, pedError |-> FALSE,
   phenotypes |-> <<>>, relationships |-> <<>>,
   hasTech |-> FALSE, techError |-> FALSE,
   technicals |-> <<>>]

LocalStudies == {StudyFull, StudyPlain, StudyTwoTech, StudyBadPed, StudyTooManyFiles}

StudyNames == {s.name : s \in LocalStudies}

DatasetNames == {"A", "B", "C"}

\* What the server holds: at most one study of the batch exists remotely,
\* with its datasets (name, status), phenotype names and technical names.
Remote(s, ds, ps, ts) == [study |-> s, datasets |-> ds, phenotypes |-> ps, technicals |-> ts]

RDs(n, st) == [name |-> n, status |-> st]

RemoteStates ==
  { Remote("", {}, {}, {}),
    Remote("s1", {RDs("A", TRUE)}, {"A"}, {"T1"}),
    Remote("s1", {RDs("B", FALSE)}, {"B"}, {}),
    Remote("s1", {RDs("A", TRUE), RDs("B", TRUE)}, {"A", "B"}, {"T1"}),
    Remote("s1", {RDs("A", TRUE)}, {"A", "B"}, {"T1"}),
    Remote("s2", {}, {}, {}),
    Remote("s2", {RDs("A", TRUE)}, {}, {}),
    Remote("s2", {RDs("A", TRUE), RDs("C", TRUE)}, {}, {}),
    Remote("s3", {RDs("C", FALSE)}, {}, {"T1"}),
    Remote("s3", {RDs("A", TRUE), RDs("C", TRUE)}, {}, {"T1", "T2"}),
    Remote("s3", {RDs("C", TRUE)}, {}, {"T2"}),
    Remote("s3", {RDs("B", TRUE)}, {}, {"T1", "T2"}) }

RECURSIVE SeqsUpTo(_, _)
\* all sequences over S of length 1..n without repetition
SeqsUpTo(S, n) ==
  IF n = 0 THEN {}
  ELSE LET shorter == SeqsUpTo(S, n - 1)
       IN  {<<x>> : x \in S} \cup shorter
           \cup {Append(q, x) : q \in shorter, x \in S}

NoDup(q) == \A a, b \in 1..Len(q) : a # b => q[a].name # q[b].name

Batches == {q \in SeqsUpTo(LocalStudies, MaxStudies) : NoDup(q)}

Range(q) == {q[k] : k \in 1..Len(q)}

Min(a, b) == IF a < b THEN a ELSE b

(* ---------------------------------------------------------------------- *)
(* State                                                                   *)
(* ---------------------------------------------------------------------- *)
VARIABLES
  pc,                \* position of the single thread of control
  ret,               \* call site that the running request() returns to
  req,               \* arguments of the running request() call
  i,                 \* loop index of request()'s retry loop
  nAttempts,         \* HTTP attempts made so far by the running request()
  lastOutcome,       \* outcome of the last HTTP attempt: none, exc, resp
  r,                 \* status code of the last response (0: none yet)
  raised,            \* exception being propagated ("" if none)
  IP_ADDR,           \* the address recorded at the start of the run
  ipCalls,           \* number of get_ip() calls so far
  failIP,            \* the public address at the moment the last attempt of
                     \* the running request() raised ("" if it did not)
  studies_to_upload, \* the batch
  chunk_size,        \* --chunk-size
  headers,           \* the headers dict shared by every call after login
  existing_studies,  \* names listed by GET api/study
  si,                \* index of the study being processed
  is_existing_study,
  remote,            \* what the server holds (environment)
  study_tree,        \* the local tree, then the tree handed to upload_study
  updated_study_tree, \* the tree update_study_tree() builds
  udi,               \* index of update_study_tree's loop over the datasets
  phenotypes_uuid,   \* keys of upload_study's phenotypes_uuid
  technicals_uuid,   \* keys of upload_study's technicals_uuid
  pi, ri, rpi, ti, di, fi, \* loop indexes of upload_study
  range_start, prev_position,
  fpos,              \* f.tell()
  read_len,          \* len(read_data)
  log                \* every request() call made in the run, in order, with
                     \* the status of its response (0 while it has none)

reqVars == <<req, i, nAttempts, lastOutcome, failIP>>
ipVars == <<IP_ADDR, ipCalls>>
upVars == <<studies_to_upload, chunk_size, existing_studies, si, is_existing_study, remote>>
idxVars == <<pi, ri, rpi, ti, di, fi>>
fileVars == <<range_start, prev_position, fpos, read_len>>
ustVars == <<updated_study_tree, udi>>
usVars == <<study_tree, ustVars, phenotypes_uuid, technicals_uuid, idxVars, fileVars>>
vars == <<pc, ret, reqVars, r, raised, ipVars, upVars, headers, usVars, log>>

NoHeaders == [Authorization |-> FALSE, ContentType |-> FALSE, ContentRange |-> NoRange]

\* Python's None where a study tree is expected
None ==
  [name |-> "", study_uuid |-> FALSE,
   hasDatasets |-> FALSE, datasets |-> <<>>,
   hasPhenotypes |-> FALSE, phenotypes |-> <<>>,
   hasRelationships |-> FALSE, relationships |-> <<>>,
   hasTechnicals |-> FALSE, technicals |-> <<>>]

NoReq ==
  [method |-> "", kind |-> "", study |-> "", name |-> "", arg |-> "", file |-> 0,
   headers |-> NoHeaders, pos |-> 0, len |-> 0]

\* the arguments of one request() call: method, url (kind, study, name, arg,
\* file), headers and, for a chunk, the file offset and length of its data
Req(method, kind, name, arg, hdrs) ==
  [method |-> method, kind |-> kind,
   study |-> IF si \in 1..Len(studies_to_upload) THEN studies_to_upload[si].name ELSE "",
   name |-> name, arg |-> arg, file |-> 0, headers |-> hdrs, pos |-> 0, len |-> 0]

Init ==
  /\ pc = "start" /\ ret = "" /\ req = NoReq /\ i = 0 /\ nAttempts = 0
  /\ lastOutcome = "none" /\ r = 0 /\ raised = ""
  /\ IP_ADDR = "" /\ ipCalls = 0 /\ failIP = ""
  /\ studies_to_upload \in Batches
  /\ chunk_size \in ChunkSizes
  /\ headers = NoHeaders /\ existing_studies = {} /\ si = 0
  /\ is_existing_study = FALSE /\ study_tree = None
  /\ remote \in {rs \in RemoteStates :
                   rs.study = "" \/ \E k \in 1..Len(studies_to_upload) :
                                     studies_to_upload[k].name = rs.study}
  /\ updated_study_tree = None /\ udi = 0
  /\ phenotypes_uuid = {} /\ technicals_uuid = {}
  /\ pi = 0 /\ ri = 0 /\ rpi = 0 /\ ti = 0 /\ di = 0 /\ fi = 0
  /\ range_start = 0 /\ prev_position = 0 /\ fpos = 0 /\ read_len = 0
  /\ log = <<>>

(* ---------------------------------------------------------------------- *)
(* request()                                                               *)
(* ---------------------------------------------------------------------- *)
\* entering request(rq): the retry loop of the branch of rq.method starts
Call(rq, retLabel) ==
  /\ req' = rq /\ i' = 0 /\ nAttempts' = 0 /\ lastOutcome' = "none" /\ failIP' = ""
  /\ pc' = "request" /\ ret' = retLabel
  /\ log' = Append(log, [call |-> rq, status |-> 0])

\* the handlers of upload(): the try around the login call catches
\* RequestMethodError, the try around the loop over the studies catches the
\* resource errors; both return error(exc), anything else is not handled
CaughtAtLogin == {"RequestMethodError"}

CaughtInLoop ==
  {"RequestMethodError", "ResourceCreationException", "ResourceRetrievingException",
   "ResourceAssignationException", "ResourceModificationException",
   "UploadInitException", "UploadException", "GeodataException",
   "RelationshipException"}

\* where an exception that reaches upload() ends the run: return error(exc)
\* in a handler, or an unhandled exception
Handled(exc, site) ==
  IF site = "up_login_ret" THEN exc \in CaughtAtLogin ELSE exc \in CaughtInLoop

\* raise exc in the code that runs after the call site ret
Raise(exc) ==
  /\ raised' = exc
  /\ pc' = IF Handled(exc, ret) THEN "done" ELSE "crashed"

\* a step of the caller that calls nothing and raises nothing
Step(label) == pc' = label /\ UNCHANGED <<ret, reqVars, raised, log>>

TransportExceptions == {"ConnectionError", "ReadTimeout"}

\* the status codes of the server that the callers of request() tell apart
\* for a request: the one they test for (200; 204 for the PUT of a link and
\* the PATCH; 201 for the upload init; 206 and 200 for a chunk), 200 where
\* another one is tested for, and 500 for every other status
Answers(rq) ==
  CASE rq.kind \in {"link_phenotype", "link_technical", "patch_status"} -> {204, 200, 500}
    [] rq.kind = "upload_init" -> {201, 200, 500}
    [] rq.kind = "chunk" -> {206, 200, 500}
    [] OTHER -> {200, 500}

\* one attempt (requests.post/put/patch/get) that yields a response: return r
RequestResponse ==
  /\ pc = "request" /\ req.method \in {GET, POST, PUT, PATCH}
  /\ i < MAX_RETRIES
  /\ \E status \in Answers(req) : r' = status
  /\ nAttempts' = nAttempts + 1 /\ lastOutcome' = "resp" /\ failIP' = ""
  /\ log' = [log EXCEPT ![Len(log)].status = r']
  /\ pc' = ret
  /\ UNCHANGED <<ret, req, i, raised, ipVars, upVars, headers, usVars>>

\* one attempt that raises: the exception is swallowed, the loop sleeps and
\* goes on; when the loop is exhausted control falls through the remaining
\* method tests to the final raise RequestMethodError
RequestException ==
  /\ pc = "request" /\ req.method \in {GET, POST, PUT, PATCH}
  /\ i < MAX_RETRIES
  /\ nAttempts' = nAttempts + 1 /\ lastOutcome' = "exc"
  /\ i' = i + 1
  /\ \E ip \in IPs : failIP' = ip
  /\ IF i + 1 < MAX_RETRIES
       THEN pc' = "request" /\ raised' = raised
       ELSE pc' = "request_raise" /\ raised' = "RequestMethodError"
  /\ UNCHANGED <<ret, req, r, ipVars, upVars, headers, usVars, log>>

(* ---------------------------------------------------------------------- *)
(* upload()                                                                *)
(* ---------------------------------------------------------------------- *)
\* IP_ADDR = get_ip(), then the login call
Upload_Start ==
  /\ pc = "start"
  /\ ipCalls' = ipCalls + 1
  /\ \/ /\ IP_ADDR' = HomeIP
        /\ Call(Req(POST, "login", "", "", NoHeaders), "up_login_ret")
        /\ UNCHANGED raised
     \/ \* urlopen raises: no handler in upload()
        /\ pc' = "crashed" /\ raised' = "URLError"
        /\ UNCHANGED <<IP_ADDR, ret, reqVars, log>>
  /\ UNCHANGED <<r, upVars, headers, usVars>>

\* variant of the check of the login response: any response is accepted
LoginOK_any(status) == status \in StatusCodes

\* the login succeeded
LoginOK(status) == status = 200

\* login answered; then the studies list is requested
Upload_LoginRet ==
  /\ pc = "up_login_ret"
  /\ IF ~LoginOK(r)
       THEN /\ pc' = "done"
            /\ UNCHANGED <<ret, reqVars, headers, log>>
       ELSE /\ headers' = [NoHeaders EXCEPT !.Authorization = TRUE]
            /\ Call(Req(GET, "study_list", "", "", headers'), "up_list_ret")
  /\ UNCHANGED <<r, raised, ipVars, upVars, usVars>>

\* validate_study(): the dataset dictionary keeps the sub-directories that
\* hold a qualifying file; more than 2 of them in one directory, no dataset
\* at all, or a parse error of pedigree.txt / technical.txt give None
validate_study(s) ==
  LET kept == SelectSeq(s.dirs, LAMBDA d : Len(d.files) >= 1)
  IN  IF \E k \in 1..Len(s.dirs) : Len(s.dirs[k].files) > 2 THEN None
      ELSE IF kept = <<>> THEN None
      ELSE IF s.hasPed /\ s.pedError THEN None
      ELSE IF s.hasTech /\ s.techError THEN None
      ELSE [name |-> s.name, study_uuid |-> FALSE,
            hasDatasets |-> TRUE, datasets |-> kept,
            hasPhenotypes |-> TRUE,
            phenotypes |-> IF s.hasPed THEN s.phenotypes ELSE <<>>,
            hasRelationships |-> s.hasPed,
            relationships |-> IF s.hasPed THEN s.relationships ELSE <<>>,
            hasTechnicals |-> TRUE,
            technicals |-> IF s.hasTech THEN s.technicals ELSE <<>>]

\* the studies list answered; the loop over the studies starts
Upload_ListRet ==
  /\ pc = "up_list_ret"
  /\ IF r # 200
       THEN /\ Raise("ResourceRetrievingException")
            /\ UNCHANGED <<existing_studies, si>>
       ELSE /\ existing_studies' = {remote.study} \ {""}
            /\ si' = 1
            /\ pc' = "up_study_loop"
            /\ UNCHANGED raised
  /\ UNCHANGED <<ret, reqVars, r, ipVars, studies_to_upload, chunk_size,
                 is_existing_study, remote, headers, usVars, log>>

\* head of "for s in studies_to_upload": an existing study has its dataset
\* list fetched, a new one goes to validation
Upload_StudyLoop ==
  /\ pc = "up_study_loop"
  /\ IF si > Len(studies_to_upload)
       THEN /\ pc' = "done"
            /\ UNCHANGED <<ret, reqVars, is_existing_study, log>>
       ELSE IF studies_to_upload[si].name \in existing_studies
         THEN /\ is_existing_study' = TRUE
              /\ Call(Req(GET, "study_datasets", "", "", headers), "up_datasets_ret")
         ELSE /\ is_existing_study' = FALSE
              /\ pc' = "up_validate"
              /\ UNCHANGED <<ret, reqVars, log>>
  /\ UNCHANGED <<r, raised, ipVars, studies_to_upload, chunk_size, existing_studies,
                 si, remote, headers, usVars>>

\* variant of the comparison of the dataset names: they never compare equal
SameDatasets_never(datasets_to_upload, existing_datasets) == FALSE

\* set(datasets_to_upload) == set(existing_datasets)
SameDatasets(datasets_to_upload, existing_datasets) ==
  datasets_to_upload = existing_datasets

\* the dataset list of an existing study answered: equal sets of names skip
\* the study, different ones ask the user whether to continue
Upload_DatasetsRet ==
  /\ pc = "up_datasets_ret"
  /\ IF r # 200
       THEN Raise("ResourceRetrievingException") /\ UNCHANGED si
       ELSE LET datasets_to_upload == {d.name : d \in Range(studies_to_upload[si].dirs)}
                existing_datasets == {d.name : d \in remote.datasets}
            IN  IF ~SameDatasets(datasets_to_upload, existing_datasets)
                  THEN \E continue_upload \in BOOLEAN :
                         /\ pc' = (IF continue_upload THEN "up_validate" ELSE "done")
                         /\ UNCHANGED <<raised, si>>
                  ELSE pc' = "up_study_loop" /\ si' = si + 1 /\ UNCHANGED raised
  /\ UNCHANGED <<ret, reqVars, r, ipVars, studies_to_upload, chunk_size,
                 existing_studies, is_existing_study, remote, headers, usVars, log>>

\* validate_study(s), then upload_study, or update_study_tree for an
\* existing study: its first statement is the request of the studies list
Upload_Validate ==
  /\ pc = "up_validate"
  /\ study_tree' = validate_study(studies_to_upload[si])
  /\ IF study_tree' = None
       THEN Step("up_study_loop") /\ si' = si + 1
       ELSE IF is_existing_study
         THEN /\ Call(Req(GET, "study_list", "", "", headers), "ust_list_ret")
              /\ UNCHANGED <<raised, si>>
         ELSE Step("us_begin") /\ UNCHANGED si
  /\ UNCHANGED <<r, ipVars, studies_to_upload, chunk_size, existing_studies,
                 is_existing_study, remote, headers, ustVars, phenotypes_uuid,
                 technicals_uuid, idxVars, fileVars>>

\* an exception leaves request(): a ConnectionError or ReadTimeout raised by
\* the chunk PUT call is handled in upload_study's loop (get_ip, then abort
\* or seek back and retry); every other one propagates to upload()
RequestRaise ==
  /\ pc = "request_raise"
  /\ IF ret = "us_chunk_ret" /\ raised \in TransportExceptions
       THEN /\ ipCalls' = ipCalls + 1
            /\ raised' = ""
            /\ \E IP \in IPs :
                 IF IP # IP_ADDR
                   THEN \* return error(...): upload_study returns
                        /\ pc' = "up_study_loop" /\ si' = si + 1
                        /\ UNCHANGED <<fpos, range_start>>
                   ELSE /\ fpos' = prev_position
                        /\ range_start' = range_start - 1
                        /\ pc' = "us_chunk_loop" /\ si' = si
       ELSE /\ pc' = (IF Handled(raised, ret) THEN "done" ELSE "crashed")
            /\ UNCHANGED <<ipCalls, raised, si, fpos, range_start>>
  /\ UNCHANGED <<ret, reqVars, r, IP_ADDR, studies_to_upload,
                 chunk_size, existing_studies, is_existing_study, remote, headers,
                 study_tree, ustVars, phenotypes_uuid, technicals_uuid, idxVars,
                 prev_position, read_len, log>>

(* ---------------------------------------------------------------------- *)
(* update_study_tree()                                                     *)
(* ---------------------------------------------------------------------- *)
Names(q) == {q[k].name : k \in 1..Len(q)}

\* variant of the marking of the phenotypes: none is marked
MarkPhenotypes_unmarked(phenotypes, existing) == phenotypes

\* p["uuid"] = existing_phenotypes[p["name"]] for the phenotypes found remotely
MarkPhenotypes(phenotypes, existing) ==
  [k \in 1..Len(phenotypes) |->
     IF phenotypes[k].name \in existing
       THEN [phenotypes[k] EXCEPT !.uuid = TRUE]
       ELSE phenotypes[k]]

\* a phenotype to be created whose dataset is not to be uploaded
PhenotypeNameError(phenotypes, existing, pending) ==
  \E k \in 1..Len(phenotypes) :
     phenotypes[k].name \notin existing /\ phenotypes[k].name \notin pending

\* variant of the loop over the local technicals: every technical is kept
\* with the datasets it declares
UpdateTechnicals_keepAll(technicals, existing, pending, k, acc) ==
  [exc |-> FALSE,
   technicals |-> [j \in 1..Len(technicals) |->
                     [technicals[j] EXCEPT !.uuid = (technicals[j].name \in existing)]]]

\* the loop over the local technicals: a technical that declares datasets
\* keeps those to be uploaded, is skipped when none is left and is appended
\* when some are; every technical that reaches the end of the loop body is
\* appended (again)
RECURSIVE UpdateTechnicals(_, _, _, _, _)
UpdateTechnicals(technicals, existing, pending, k, acc) ==
  IF k > Len(technicals) THEN [exc |-> FALSE, technicals |-> acc]
  ELSE LET t == technicals[k]
           technical_datasets == SelectSeq(t.datasets, LAMBDA d : d \in pending)
           marked == [t EXCEPT !.uuid = (t.name \in existing),
                               !.datasets = IF t.hasDatasets THEN technical_datasets
                                            ELSE t.datasets]
       IN  IF t.hasDatasets
             THEN IF t.name \notin existing
                     /\ \E j \in 1..Len(t.datasets) : t.datasets[j] \notin pending
                    THEN [exc |-> TRUE, technicals |-> acc]
                  ELSE IF technical_datasets = <<>>
                    THEN UpdateTechnicals(technicals, existing, pending, k + 1, acc)
                    ELSE UpdateTechnicals(technicals, existing, pending, k + 1,
                                          acc \o <<marked, marked>>)
             ELSE UpdateTechnicals(technicals, existing, pending, k + 1,
                                   Append(acc, marked))

\* the local technicals after the loop: t["datasets"] and t["uuid"] are set
\* in place on those that were not skipped
LocalTechnicalsAfter(technicals, existing, pending) ==
  [k \in 1..Len(technicals) |->
     LET t == technicals[k]
         technical_datasets == SelectSeq(t.datasets, LAMBDA d : d \in pending)
     IN  IF t.hasDatasets /\ technical_datasets = <<>> THEN t
         ELSE [t EXCEPT !.uuid = (t.name \in existing),
                        !.datasets = IF t.hasDatasets THEN technical_datasets
                                     ELSE t.datasets]]

Pending == Names(updated_study_tree.datasets)

\* the studies list answered: the uuid of the study, then its datasets
UST_ListRet ==
  /\ pc = "ust_list_ret"
  /\ IF r # 200
       THEN /\ Raise("ResourceRetrievingException")
            /\ UNCHANGED <<ret, reqVars, log, updated_study_tree>>
       ELSE IF study_tree.name # remote.study
         THEN /\ Raise("RetrieveExistingStudyException")
              /\ UNCHANGED <<ret, reqVars, log, updated_study_tree>>
         ELSE /\ updated_study_tree' =
                   [None EXCEPT !.study_uuid = TRUE, !.name = study_tree.name]
              /\ Call(Req(GET, "study_datasets", "", "", headers), "ust_datasets_ret")
              /\ UNCHANGED raised
  /\ UNCHANGED <<r, ipVars, upVars, headers, study_tree, udi, phenotypes_uuid,
                 technicals_uuid, idxVars, fileVars>>

\* the remote datasets answered: only a non-empty answer creates the
\* "datasets" entry of the updated tree
UST_DatasetsRet ==
  /\ pc = "ust_datasets_ret"
  /\ IF r # 200
       THEN Raise("ResourceRetrievingException") /\ UNCHANGED ustVars
       ELSE IF remote.datasets # {}
         THEN /\ updated_study_tree' = [updated_study_tree EXCEPT !.hasDatasets = TRUE]
              /\ udi' = 1
              /\ pc' = "ust_dataset_loop" /\ UNCHANGED raised
         ELSE pc' = "ust_phenotypes" /\ UNCHANGED <<raised, ustVars>>
  /\ UNCHANGED <<ret, reqVars, r, ipVars, upVars, headers, study_tree,
                 phenotypes_uuid, technicals_uuid, idxVars, fileVars, log>>

\* variant of the test of a local dataset: only a remote dataset whose
\* status is set counts as existing
AlreadyRemote_ifReady(d, datasets_map) ==
  \E rd \in datasets_map : rd.name = d /\ rd.status

\* d in datasets_map.keys()
AlreadyRemote(d, datasets_map) == \E rd \in datasets_map : rd.name = d

\* the loop over the local datasets: one found remotely is left out (its
\* file list is fetched if its status is not set), the others are kept
UST_DatasetLoop ==
  /\ pc = "ust_dataset_loop"
  /\ IF udi > Len(study_tree.datasets)
       THEN Step("ust_phenotypes") /\ UNCHANGED ustVars
       ELSE LET d == study_tree.datasets[udi]
            IN  IF AlreadyRemote(d.name, remote.datasets)
                  THEN IF \E rd \in remote.datasets : rd.name = d.name /\ ~rd.status
                         THEN /\ Call(Req(GET, "dataset_files", d.name, "", headers),
                                      "ust_files_ret")
                              /\ UNCHANGED <<raised, ustVars>>
                         ELSE /\ Step("ust_dataset_loop")
                              /\ udi' = udi + 1
                              /\ UNCHANGED updated_study_tree
                  ELSE /\ Step("ust_dataset_loop")
                       /\ udi' = udi + 1
                       /\ updated_study_tree' =
                            [updated_study_tree EXCEPT !.datasets = Append(@, d)]
  /\ UNCHANGED <<r, ipVars, upVars, headers, study_tree, phenotypes_uuid,
                 technicals_uuid, idxVars, fileVars>>

\* the file list answered: files not uploaded are only reported
UST_FilesRet ==
  /\ pc = "ust_files_ret"
  /\ IF r # 200
       THEN Raise("ResourceRetrievingException") /\ UNCHANGED udi
       ELSE pc' = "ust_dataset_loop" /\ udi' = udi + 1 /\ UNCHANGED raised
  /\ UNCHANGED <<ret, reqVars, r, ipVars, upVars, headers, study_tree,
                 updated_study_tree, phenotypes_uuid, technicals_uuid, idxVars,
                 fileVars, log>>

\* no "datasets" entry: return None and upload() goes on with the next
\* study; else the remote phenotypes are requested if there are local ones
UST_Phenotypes ==
  /\ pc = "ust_phenotypes"
  /\ IF ~updated_study_tree.hasDatasets
       THEN Step("up_study_loop") /\ si' = si + 1
       ELSE IF study_tree.phenotypes # <<>>
         THEN /\ Call(Req(GET, "study_phenotypes", "", "", headers), "ust_phen_ret")
              /\ UNCHANGED <<raised, si>>
         ELSE Step("ust_relationships") /\ UNCHANGED si
  /\ UNCHANGED <<r, ipVars, studies_to_upload, chunk_size, existing_studies,
                 is_existing_study, remote, headers, usVars>>

\* the remote phenotypes answered: the local ones are marked or checked
UST_PhenRet ==
  /\ pc = "ust_phen_ret"
  /\ IF r # 200
       THEN /\ Raise("ResourceRetrievingException")
            /\ UNCHANGED <<study_tree, updated_study_tree>>
       ELSE IF PhenotypeNameError(study_tree.phenotypes, remote.phenotypes, Pending)
         THEN /\ Raise("PhenotypeNameException")
              /\ UNCHANGED <<study_tree, updated_study_tree>>
         ELSE LET marked == MarkPhenotypes(study_tree.phenotypes, remote.phenotypes)
              IN  /\ study_tree' = [study_tree EXCEPT !.phenotypes = marked]
                  /\ updated_study_tree' =
                       [updated_study_tree EXCEPT !.hasPhenotypes = TRUE,
                                                  !.phenotypes = marked]
                  /\ pc' = "ust_relationships" /\ UNCHANGED raised
  /\ UNCHANGED <<ret, reqVars, r, ipVars, upVars, headers, udi, phenotypes_uuid,
                 technicals_uuid, idxVars, fileVars, log>>

\* variant of the selection of the relationships: all of them are kept
KeptRelationships_all(relationships, phenotypes_to_upload) == relationships

\* the relationships whose son is a phenotype to be created
KeptRelationships(relationships, phenotypes_to_upload) ==
  SelectSeq(relationships, LAMBDA x : x.son \in phenotypes_to_upload)

\* the relationships of the phenotypes to be created are kept, or the
\* local entry is popped when there is none; then the remote technicals are
\* requested if there are local ones, else the updated tree is returned
UST_Relationships ==
  /\ pc = "ust_relationships"
  /\ LET phenotypes_to_upload ==
           {p.name : p \in {q \in Range(updated_study_tree.phenotypes) : ~q.uuid}}
     IN  IF study_tree.hasRelationships
           THEN IF phenotypes_to_upload = {}
                  THEN /\ study_tree' = [study_tree EXCEPT !.hasRelationships = FALSE,
                                                           !.relationships = <<>>]
                       /\ UNCHANGED updated_study_tree
                  ELSE /\ updated_study_tree' =
                            [updated_study_tree EXCEPT
                               !.hasRelationships = TRUE,
                               !.relationships =
                                  KeptRelationships(study_tree.relationships,
                                                    phenotypes_to_upload)]
                       /\ UNCHANGED study_tree
           ELSE UNCHANGED <<study_tree, updated_study_tree>>
  /\ IF study_tree.technicals # <<>>
       THEN Call(Req(GET, "study_technicals", "", "", headers), "ust_tech_ret")
       ELSE Step("up_confirm")
  /\ UNCHANGED <<r, raised, ipVars, upVars, headers, udi, phenotypes_uuid,
                 technicals_uuid, idxVars, fileVars>>

\* the remote technicals answered: the loop over the local technicals
UST_TechRet ==
  /\ pc = "ust_tech_ret"
  /\ IF r # 200
       THEN /\ Raise("ResourceRetrievingException")
            /\ UNCHANGED <<study_tree, updated_study_tree>>
       ELSE LET res == UpdateTechnicals(study_tree.technicals, remote.technicals,
                                        Pending, 1, <<>>)
            IN  IF res.exc
                  THEN /\ Raise("TechnicalAssociationException")
                       /\ UNCHANGED <<study_tree, updated_study_tree>>
                  ELSE /\ updated_study_tree' =
                            [updated_study_tree EXCEPT !.hasTechnicals = TRUE,
                                                       !.technicals = res.technicals]
                       /\ study_tree' =
                            [study_tree EXCEPT !.technicals =
                               LocalTechnicalsAfter(study_tree.technicals,
                                                    remote.technicals, Pending)]
                       /\ pc' = "up_confirm" /\ UNCHANGED raised
  /\ UNCHANGED <<ret, reqVars, r, ipVars, upVars, headers, udi, phenotypes_uuid,
                 technicals_uuid, idxVars, fileVars, log>>

\* back in upload(): study_tree = update_study_tree(...); the prompt reads
\* the datasets, phenotypes and technicals of the updated tree
Upload_Confirm ==
  /\ pc = "up_confirm"
  /\ study_tree' = updated_study_tree
  /\ IF ~updated_study_tree.hasPhenotypes \/ ~updated_study_tree.hasTechnicals
       THEN Raise("KeyError")
       ELSE \E approve_differences \in BOOLEAN :
              /\ pc' = (IF approve_differences THEN "us_begin" ELSE "done")
              /\ UNCHANGED raised
  /\ UNCHANGED <<ret, reqVars, r, ipVars, upVars, headers, ustVars, phenotypes_uuid,
                 technicals_uuid, idxVars, fileVars, log>>

\* variant of the order of the blocks: the technicals before the relationships
NextBlock_swapped(block) ==
  CASE block = "study" -> "us_phen_begin"
    [] block = "phenotypes" -> "us_tech_loop"
    [] block = "technicals" -> "us_rel_loop"
    [] block = "relationships" -> "us_dataset_loop"

(* ---------------------------------------------------------------------- *)
(* upload_study()                                                          *)
(* ---------------------------------------------------------------------- *)
\* the blocks of upload_study in the order of the source: the study, the
\* phenotypes, the relationships, the technicals, the datasets
NextBlock(block) ==
  CASE block = "study" -> "us_phen_begin"
    [] block = "phenotypes" -> "us_rel_loop"
    [] block = "relationships" -> "us_tech_loop"
    [] block = "technicals" -> "us_dataset_loop"

\* variant of the test of the study's uuid: the uuid is never found
StudyExists_never(tree) == FALSE

\* "study_uuid" in study_tree.keys(): the tree is the plan of an existing study
StudyExists(tree) == tree.study_uuid

\* study creation, unless the tree carries the uuid of an existing study
US_Begin ==
  /\ pc = "us_begin"
  /\ IF ~StudyExists(study_tree)
       THEN Call(Req(POST, "create_study", study_tree.name, "", headers), "us_study_ret")
       ELSE Step(NextBlock("study"))
  /\ phenotypes_uuid' = {} /\ technicals_uuid' = {}
  /\ pi' = 1 /\ ri' = 1 /\ rpi' = 1 /\ ti' = 1 /\ di' = 1 /\ fi' = 1
  /\ UNCHANGED <<r, raised, ipVars, upVars, headers, study_tree, ustVars, fileVars>>

US_StudyRet ==
  /\ pc = "us_study_ret"
  /\ IF r # 200
       THEN Raise("ResourceCreationException")
       ELSE pc' = NextBlock("study") /\ UNCHANGED raised
  /\ UNCHANGED <<ret, reqVars, r, ipVars, upVars, headers, usVars, log>>

\* phenotypes that carry a uuid are recorded; if one is to be created the
\* schema (geodata list) is requested with a JSON content type
US_PhenBegin ==
  /\ pc = "us_phen_begin"
  /\ phenotypes_uuid' = {p.name : p \in {q \in Range(study_tree.phenotypes) : q.uuid}}
  /\ IF \E p \in Range(study_tree.phenotypes) : ~p.uuid
       THEN /\ headers' = [headers EXCEPT !.ContentType = TRUE]
            /\ Call(Req(POST, "get_schema", "", "", headers'), "us_schema_ret")
       ELSE /\ Step(NextBlock("phenotypes"))
            /\ UNCHANGED headers
  /\ UNCHANGED <<r, raised, ipVars, upVars, study_tree, ustVars, technicals_uuid,
                 idxVars, fileVars>>

US_SchemaRet ==
  /\ pc = "us_schema_ret"
  /\ IF r # 200
       THEN Raise("ResourceRetrievingException")
       ELSE pc' = "us_phen_loop" /\ UNCHANGED raised
  /\ UNCHANGED <<ret, reqVars, r, ipVars, upVars, headers, study_tree, ustVars,
                 phenotypes_uuid, technicals_uuid, idxVars, fileVars, log>>

\* head of the loop that creates the phenotypes without uuid; a birth place
\* name is looked up in the geodata options of the schema first
US_PhenLoop ==
  /\ pc = "us_phen_loop"
  /\ IF pi > Len(study_tree.phenotypes)
       THEN /\ Step(NextBlock("phenotypes"))
            /\ UNCHANGED <<pi, headers>>
       ELSE IF study_tree.phenotypes[pi].uuid
         THEN /\ Step("us_phen_loop")
              /\ pi' = pi + 1
              /\ UNCHANGED headers
         ELSE \E found \in BOOLEAN :
              IF study_tree.phenotypes[pi].birth_place_name /\ ~found
                THEN /\ Raise("GeodataException")
                     /\ UNCHANGED <<ret, reqVars, log, pi, headers>>
                ELSE /\ headers' = [headers EXCEPT !.ContentType = FALSE]
                     /\ Call(Req(POST, "create_phenotype", study_tree.phenotypes[pi].name,
                                 "", headers'), "us_phen_ret")
                     /\ UNCHANGED <<raised, pi>>
  /\ UNCHANGED <<r, ipVars, upVars, study_tree, ustVars, phenotypes_uuid, technicals_uuid,
                 ri, rpi, ti, di, fi, fileVars>>

US_PhenRet ==
  /\ pc = "us_phen_ret"
  /\ IF r # 200
       THEN Raise("ResourceCreationException") /\ UNCHANGED <<phenotypes_uuid, pi>>
       ELSE /\ phenotypes_uuid' = phenotypes_uuid \cup {study_tree.phenotypes[pi].name}
            /\ pi' = pi + 1
            /\ pc' = "us_phen_loop" /\ UNCHANGED raised
  /\ UNCHANGED <<ret, reqVars, r, ipVars, upVars, headers, study_tree, ustVars,
                 technicals_uuid, ri, rpi, ti, di, fi, fileVars, log>>

\* the nested loops over the relationships: one POST per (son, parent)
US_RelLoop ==
  /\ pc = "us_rel_loop"
  /\ IF ~study_tree.hasRelationships \/ ri > Len(study_tree.relationships)
       THEN /\ Step(NextBlock("relationships"))
            /\ UNCHANGED <<ri, rpi>>
       ELSE IF rpi > Len(study_tree.relationships[ri].parents)
         THEN /\ Step("us_rel_loop")
              /\ ri' = ri + 1 /\ rpi' = 1
         ELSE /\ Call(Req(POST, "create_relationship", study_tree.relationships[ri].son,
                          study_tree.relationships[ri].parents[rpi], headers),
                      "us_rel_ret")
              /\ UNCHANGED <<raised, ri, rpi>>
  /\ UNCHANGED <<r, ipVars, upVars, headers, study_tree, ustVars, phenotypes_uuid,
                 technicals_uuid, pi, ti, di, fi, fileVars>>

US_RelRet ==
  /\ pc = "us_rel_ret"
  /\ IF r # 200
       THEN Raise("RelationshipException") /\ UNCHANGED rpi
       ELSE pc' = "us_rel_loop" /\ rpi' = rpi + 1 /\ UNCHANGED raised
  /\ UNCHANGED <<ret, reqVars, r, ipVars, upVars, headers, study_tree, ustVars,
                 phenotypes_uuid, technicals_uuid, pi, ri, ti, di, fi, fileVars, log>>

\* the loop over the technicals: those without uuid are created
US_TechLoop ==
  /\ pc = "us_tech_loop"
  /\ IF ti > Len(study_tree.technicals)
       THEN /\ Step(NextBlock("technicals"))
            /\ UNCHANGED <<ti, technicals_uuid>>
       ELSE IF study_tree.technicals[ti].uuid
         THEN /\ Step("us_tech_loop")
              /\ technicals_uuid' = technicals_uuid \cup {study_tree.technicals[ti].name}
              /\ ti' = ti + 1
         ELSE /\ Call(Req(POST, "create_technical", study_tree.technicals[ti].name,
                          "", headers), "us_tech_ret")
              /\ UNCHANGED <<raised, ti, technicals_uuid>>
  /\ UNCHANGED <<r, ipVars, upVars, headers, study_tree, ustVars, phenotypes_uuid,
                 pi, ri, rpi, di, fi, fileVars>>

US_TechRet ==
  /\ pc = "us_tech_ret"
  /\ IF r # 200
       THEN Raise("ResourceCreationException") /\ UNCHANGED <<technicals_uuid, ti>>
       ELSE /\ technicals_uuid' = technicals_uuid \cup {study_tree.technicals[ti].name}
            /\ ti' = ti + 1
            /\ pc' = "us_tech_loop" /\ UNCHANGED raised
  /\ UNCHANGED <<ret, reqVars, r, ipVars, upVars, headers, study_tree, ustVars,
                 phenotypes_uuid, pi, ri, rpi, di, fi, fileVars, log>>

\* get_technical_uuid(): the name of the technical whose uuid is returned,
\* "" for None, "KeyError" when a technical without "datasets" is subscripted
RECURSIVE FirstTechFor(_, _, _)
FirstTechFor(technicals, dataset_name, k) ==
  IF k > Len(technicals) THEN ""
  ELSE IF ~technicals[k].hasDatasets THEN "KeyError"
  ELSE IF dataset_name \in Range(technicals[k].datasets) THEN technicals[k].name
  ELSE FirstTechFor(technicals, dataset_name, k + 1)

get_technical_uuid(tree, dataset_name) ==
  IF Len(tree.technicals) > 1
    THEN FirstTechFor(tree.technicals, dataset_name, 1)
    ELSE IF ~tree.technicals[1].hasDatasets
            \/ dataset_name \in Range(tree.technicals[1].datasets)
         THEN tree.technicals[1].name
         ELSE ""

\* chunk = chunk_size * 1024 * 1024
chunk == chunk_size * 1024 * 1024

\* variant of the read: f.read returns at most half of the requested bytes
ReadLen_short(position, filesize) ==
  Min((chunk + 1) \div 2, filesize - position)

\* len(f.read(chunk)) at offset position: a negative size reads to the end
ReadLen(position, filesize) ==
  IF chunk < 0 THEN filesize - position ELSE Min(chunk, filesize - position)

\* variant of the end of the range: the end is not capped by the file size
RangeMax_uncapped(start, filesize) == start + chunk

\* range_max = min(range_start + chunk, filesize)
RangeMax(start, filesize) == Min(start + chunk, filesize)

\* range_start += chunk, after a 206
NextRangeStart(start) == start + chunk

\* variants of the status check of the chunk loop: every status but 200
\* continues; 200 continues as 206 does
ChunkOutcome_lenient(status) ==
  IF status = 200 THEN "break" ELSE "continue"

ChunkOutcome_ignore200(status) ==
  IF status \in {200, 206} THEN "continue" ELSE "raise"

\* what the loop does with the status of a chunk response
ChunkOutcome(status) ==
  IF status # 206
    THEN (IF status = 200 THEN "break" ELSE "raise")
    ELSE "continue"

\* variant of the check after the chunk loop: any last response completes
FileCompleted_any(status) == status \in StatusCodes

\* variant of the check after the chunk loop: a last response 206 completes too
FileCompleted_or206(status) == status \in {200, 206}

\* the test after the chunk loop: the last response must be a 200
FileCompleted(status) == status = 200

CurDataset == study_tree.datasets[di]

\* head of the loop over the datasets: dataset creation, or upload_study
\* returns and upload() goes on with the next study
US_DatasetLoop ==
  /\ pc = "us_dataset_loop"
  /\ IF di > Len(study_tree.datasets)
       THEN /\ Step("up_study_loop")
            /\ si' = si + 1
       ELSE /\ Call(Req(POST, "create_dataset", CurDataset.name, "", headers),
                    "us_dataset_ret")
            /\ UNCHANGED <<raised, si>>
  /\ UNCHANGED <<r, ipVars, studies_to_upload, chunk_size, existing_studies,
                 is_existing_study, remote, headers, usVars>>

\* dataset created: its phenotype, if any, is linked
US_DatasetRet ==
  /\ pc = "us_dataset_ret"
  /\ IF r # 200
       THEN Raise("ResourceCreationException") /\ UNCHANGED <<ret, reqVars, log>>
       ELSE IF CurDataset.name \in phenotypes_uuid
         THEN /\ Call(Req(PUT, "link_phenotype", CurDataset.name, CurDataset.name,
                          headers), "us_linkp_ret")
              /\ UNCHANGED raised
         ELSE Step("us_link_tech")
  /\ UNCHANGED <<r, ipVars, upVars, headers, usVars>>

US_LinkPhenRet ==
  /\ pc = "us_linkp_ret"
  /\ IF r # 204
       THEN Raise("ResourceAssignationException")
       ELSE pc' = "us_link_tech" /\ UNCHANGED raised
  /\ UNCHANGED <<ret, reqVars, r, ipVars, upVars, headers, usVars, log>>

\* the technical of the dataset, if any, is linked
US_LinkTech ==
  /\ pc = "us_link_tech"
  /\ LET tech_uuid == IF study_tree.technicals # <<>>
                        THEN get_technical_uuid(study_tree, CurDataset.name)
                        ELSE ""
     IN  IF tech_uuid = "KeyError"
           THEN /\ Raise("KeyError")
                /\ UNCHANGED <<ret, reqVars, log, fi>>
           ELSE IF tech_uuid # ""
             THEN /\ Call(Req(PUT, "link_technical", CurDataset.name, tech_uuid, headers),
                          "us_linkt_ret")
                  /\ UNCHANGED <<raised, fi>>
             ELSE /\ Step("us_file_loop")
                  /\ fi' = 1
  /\ UNCHANGED <<r, ipVars, upVars, headers, study_tree, ustVars, phenotypes_uuid,
                 technicals_uuid, pi, ri, rpi, ti, di, fileVars>>

US_LinkTechRet ==
  /\ pc = "us_linkt_ret"
  /\ IF r # 204
       THEN Raise("ResourceAssignationException") /\ UNCHANGED fi
       ELSE pc' = "us_file_loop" /\ fi' = 1 /\ UNCHANGED raised
  /\ UNCHANGED <<ret, reqVars, r, ipVars, upVars, headers, study_tree, ustVars,
                 phenotypes_uuid, technicals_uuid, pi, ri, rpi, ti, di, fileVars, log>>

\* variant of the end of the loop over the files: it ends after the first file
FilesExhausted_afterFirst(k, files) == k > 1

\* "for file in files" has no file left
FilesExhausted(k, files) == k > Len(files)

\* head of the loop over the files of the dataset: upload init of the next
\* file, or the PATCH that sets the dataset's status to UPLOAD COMPLETED
US_FileLoop ==
  /\ pc = "us_file_loop"
  /\ IF FilesExhausted(fi, CurDataset.files)
       THEN Call(Req(PATCH, "patch_status", CurDataset.name, "", headers),
                 "us_patch_ret")
       ELSE Call([Req(POST, "upload_init", CurDataset.name, "", headers)
                    EXCEPT !.file = fi], "us_init_ret")
  /\ UNCHANGED <<r, raised, ipVars, upVars, headers, usVars>>

\* upload initialised: the file is opened and the chunk loop starts
US_InitRet ==
  /\ pc = "us_init_ret"
  /\ IF r # 201
       THEN Raise("UploadInitException") /\ UNCHANGED fileVars
       ELSE /\ range_start' = -1 /\ prev_position' = 0 /\ fpos' = 0 /\ read_len' = 0
            /\ pc' = "us_chunk_loop" /\ UNCHANGED raised
  /\ UNCHANGED <<ret, reqVars, r, ipVars, upVars, headers, study_tree, ustVars,
                 phenotypes_uuid, technicals_uuid, idxVars, log>>

\* one iteration of the chunk loop up to the PUT: tell, read, Content-Range
US_ChunkLoop ==
  /\ pc = "us_chunk_loop"
  /\ LET filesize == CurDataset.files[fi]
         n == ReadLen(fpos, filesize)
     IN  /\ prev_position' = fpos
         /\ read_len' = n
         /\ fpos' = fpos + n
         /\ IF n = 0
              THEN /\ Step("us_file_end")
                   /\ UNCHANGED <<range_start, headers>>
              ELSE /\ range_start' = range_start + 1
                   /\ headers' = [headers EXCEPT !.ContentRange =
                        <<range_start', RangeMax(range_start', filesize), filesize>>]
                   /\ Call([Req(PUT, "chunk", CurDataset.name, "", headers')
                              EXCEPT !.file = fi, !.pos = fpos, !.len = n],
                           "us_chunk_ret")
                   /\ UNCHANGED raised
  /\ UNCHANGED <<r, ipVars, upVars, study_tree, ustVars, phenotypes_uuid, technicals_uuid,
                 idxVars>>

\* the chunk answered: 206 continue, 200 complete, anything else fails
US_ChunkRet ==
  /\ pc = "us_chunk_ret"
  /\ IF ChunkOutcome(r) = "raise"
       THEN Raise("UploadException") /\ UNCHANGED range_start
       ELSE IF ChunkOutcome(r) = "break"
         THEN pc' = "us_file_end" /\ UNCHANGED <<raised, range_start>>
         ELSE /\ range_start' = NextRangeStart(range_start)
              /\ pc' = "us_chunk_loop" /\ UNCHANGED raised
  /\ UNCHANGED <<ret, reqVars, r, ipVars, upVars, headers, study_tree, ustVars,
                 phenotypes_uuid, technicals_uuid, idxVars, prev_position, fpos,
                 read_len, log>>

\* after the chunk loop: the file is completed only on a last response 200
US_FileEnd ==
  /\ pc = "us_file_end"
  /\ IF ~FileCompleted(r)
       THEN Raise("UploadException") /\ UNCHANGED fi
       ELSE pc' = "us_file_loop" /\ fi' = fi + 1 /\ UNCHANGED raised
  /\ UNCHANGED <<ret, reqVars, r, ipVars, upVars, headers, study_tree, ustVars,
                 phenotypes_uuid, technicals_uuid, pi, ri, rpi, ti, di, fileVars, log>>

US_PatchRet ==
  /\ pc = "us_patch_ret"
  /\ IF r # 204
       THEN Raise("ResourceModificationException") /\ UNCHANGED di
       ELSE pc' = "us_dataset_loop" /\ di' = di + 1 /\ UNCHANGED raised
  /\ UNCHANGED <<ret, reqVars, r, ipVars, upVars, headers, study_tree, ustVars,
                 phenotypes_uuid, technicals_uuid, pi, ri, rpi, ti, fi, fileVars, log>>

(* ---------------------------------------------------------------------- *)
(* Specification                                                           *)
(* ---------------------------------------------------------------------- *)
Next ==
  \/ RequestResponse \/ RequestException \/ RequestRaise
  \/ Upload_Start \/ Upload_LoginRet \/ Upload_ListRet \/ Upload_StudyLoop
  \/ Upload_DatasetsRet \/ Upload_Validate \/ Upload_Confirm
  \/ UST_ListRet \/ UST_DatasetsRet \/ UST_DatasetLoop \/ UST_FilesRet
  \/ UST_Phenotypes \/ UST_PhenRet \/ UST_Relationships \/ UST_TechRet
  \/ US_Begin \/ US_StudyRet \/ US_PhenBegin \/ US_SchemaRet \/ US_PhenLoop
  \/ US_PhenRet \/ US_RelLoop \/ US_RelRet \/ US_TechLoop \/ US_TechRet
  \/ US_DatasetLoop \/ US_DatasetRet \/ US_LinkPhenRet \/ US_LinkTech
  \/ US_LinkTechRet \/ US_FileLoop \/ US_InitRet \/ US_ChunkLoop \/ US_ChunkRet
  \/ US_FileEnd \/ US_PatchRet

Spec == Init /\ [][Next]_vars

\* the runs on one study
InitOneStudy == Init /\ Len(studies_to_upload) = 1

\* the runs on one study with the single thread of control always scheduled:
\* a step that can be taken is taken (every attempt of request() has a
\* timeout, every prompt is answered). The chunk loop of a file reads nothing
\* that an earlier study of the batch leaves behind.
FairSpec == InitOneStudy /\ [][Next]_vars /\ WF_vars(Next)

(* ---------------------------------------------------------------------- *)
(* validate_study() on the contents of a study directory                   *)
(* ---------------------------------------------------------------------- *)
\* bounds of the directory contents
MaxEntries == 3

MaxRows == 2

MaxTechnicals == 2

\* an entry of a dataset directory: dat.is_file(),
\* dat.name.endswith(".fastq.gz") and dat.stat().st_size
Entry(isFile, fastq, size) == [is_file |-> isFile, fastq_gz |-> fastq, st_size |-> size]

EntryKinds ==
  << Entry(TRUE, TRUE, 1), Entry(TRUE, TRUE, 0), Entry(TRUE, FALSE, 1),
     Entry(FALSE, TRUE, 1) >>

\* the contents of a directory, up to the order of its entries
EntryLists ==
  LET idx == {q \in UNION {[1..m -> 1..Len(EntryKinds)] : m \in 0..MaxEntries} :
                \A j \in 1..(Len(q) - 1) : q[j] <= q[j + 1]}
  IN  {[j \in 1..Len(q) |-> EntryKinds[q[j]]] : q \in idx}

RawDir(n, entries) == [name |-> n, entries |-> entries]

\* a cell of a row: absent when the header has no such column or the line
\* is too short, otherwise its characters
Cell(present, chars) == [present |-> present, chars |-> chars]

AgeCells ==
  { Cell(FALSE, <<>>), Cell(TRUE, <<>>), Cell(TRUE, <<"-">>),
    Cell(TRUE, <<"N", "/", "A">>), Cell(TRUE, <<"0">>), Cell(TRUE, <<"7">>),
    Cell(TRUE, <<"4", "2">>), Cell(TRUE, <<"-", "3">>), Cell(TRUE, <<"a", "b">>),
    Cell(TRUE, <<"3", ".", "5">>) }

\* a row of pedigree.txt: the individual and the age column
PedRow(id, age) == [individual_id |-> id, age |-> age]

PedRows == {PedRow(id, age) : id \in {"A", "B", "Z"}, age \in AgeCells}

\* a row of technical.txt: the name and the split dataset column (absent
\* stands for a missing column, an empty value and "-")
TechRow(n, present, list) == [name |-> n, present |-> present, dataset_list |-> list]

DatasetColumns ==
  { <<FALSE, <<>> >>, <<TRUE, <<"A">> >>, <<TRUE, <<"B">> >>, <<TRUE, <<"A", "B">> >>,
    <<TRUE, <<"Z">> >> }

TechnicalNames == <<"T1", "T2", "T3", "T4">>

\* the technical files: the k-th row is named Tk
TechFiles ==
  {[k \in 1..Len(q) |-> TechRow(TechnicalNames[k], q[k][1], q[k][2])] :
     q \in UNION {[1..m -> DatasetColumns] : m \in 1..MaxTechnicals}}

RawStudy(dirs, hasPed, rows, hasTech, techRows) ==
  [name |-> "raw", dirs |-> dirs, hasPed |-> hasPed, rows |-> rows,
   hasTech |-> hasTech, techRows |-> techRows]

\* two dataset directories that validate: A with one file, B with two
GoodDirs ==
  << RawDir("A", <<EntryKinds[1]>>), RawDir("B", <<EntryKinds[1], EntryKinds[1]>>) >>

\* the study directories validate_study is run on: every content of the
\* directory A alone or before or after a directory B, every pedigree file
\* of up to MaxRows rows and every technical file of up to MaxTechnicals rows
RawStudies ==
  {RawStudy(<<RawDir("A", e)>>, FALSE, <<>>, FALSE, <<>>) : e \in EntryLists}
  \cup {RawStudy(<<RawDir("A", e), GoodDirs[2]>>, FALSE, <<>>, FALSE, <<>>) :
          e \in EntryLists}
  \cup {RawStudy(<<GoodDirs[2], RawDir("A", e)>>, FALSE, <<>>, FALSE, <<>>) :
          e \in EntryLists}
  \cup {RawStudy(GoodDirs, TRUE, rows, hasTech, << TechRow("T1", FALSE, <<>>) >>) :
          rows \in UNION {[1..m -> PedRows] : m \in 0..MaxRows}, hasTech \in BOOLEAN}
  \cup {RawStudy(GoodDirs, FALSE, <<>>, TRUE, techRows) : techRows \in TechFiles}

\* variant of the test of a directory entry: the size is not looked at
Qualifying_anySize(dat) == dat.is_file /\ dat.fastq_gz

\* the test of a directory entry: a regular file named *.fastq.gz, not empty
Qualifying(dat) == dat.is_file /\ dat.fastq_gz /\ dat.st_size >= 1

\* the dataset is invalid because it contains too many fastq files
TooManyFiles(files) == Len(files) > 2

\* get_value(): None for an absent cell and for "", "-" and "N/A"
get_value(cell) ==
  IF ~cell.present \/ cell.chars = <<>> \/ cell.chars = <<"-">>
     \/ cell.chars = <<"N", "/", "A">>
    THEN [isNone |-> TRUE, value |-> <<>>]
    ELSE [isNone |-> FALSE, value |-> cell.chars]

DecimalDigits == <<"0", "1", "2", "3", "4", "5", "6", "7", "8", "9">>

IsDigits(chars) ==
  /\ chars # <<>>
  /\ \A k \in 1..Len(chars) : \E d \in 1..10 : DecimalDigits[d] = chars[k]

RECURSIVE DigitsValue(_)
DigitsValue(chars) ==
  IF chars = <<>> THEN 0
  ELSE LET last == chars[Len(chars)]
           d == CHOOSE v \in 0..9 : DecimalDigits[v + 1] = last
       IN  10 * DigitsValue(SubSeq(chars, 1, Len(chars) - 1)) + d

\* int(value): the integer of a decimal literal with an optional sign, a
\* ValueError for anything else
int(chars) ==
  LET signed == chars # <<>> /\ chars[1] \in {"-", "+"}
      digits == IF signed THEN Tail(chars) ELSE chars
  IN  IF ~IsDigits(digits) THEN [exc |-> "ValueError", value |-> 0]
      ELSE [exc |-> "",
            value |-> IF signed /\ chars[1] = "-" THEN 0 - DigitsValue(digits)
                      ELSE DigitsValue(digits)]

\* the age of a pedigree row: absent, or int(age), refused when negative
parse_age(cell) ==
  LET age == get_value(cell)
  IN  IF age.isNone THEN [exc |-> "", hasAge |-> FALSE, age |-> 0]
      ELSE IF int(age.value).exc # ""
        THEN [exc |-> int(age.value).exc, hasAge |-> FALSE, age |-> 0]
      ELSE IF int(age.value).value < 0
        THEN [exc |-> "AgeException", hasAge |-> FALSE, age |-> 0]
      ELSE [exc |-> "", hasAge |-> TRUE, age |-> int(age.value).value]

\* the datasets associated by the technicals before the k-th one
RECURSIVE AssociatedBefore(_, _)
AssociatedBefore(technicals, k) ==
  IF k <= 1 THEN <<>>
  ELSE AssociatedBefore(technicals, k - 1) \o technicals[k - 1].datasets

\* variant of the association check: a technical without datasets passes
AssociationError_sharedOnly(technicals) ==
  /\ Len(technicals) > 1
  /\ \E k \in 1..Len(technicals) :
       \E j \in 1..Len(technicals[k].datasets) :
          technicals[k].datasets[j] \in
            Range(AssociatedBefore(technicals, k)
                  \o SubSeq(technicals[k].datasets, 1, j - 1))

\* the check of the dataset association at the end of parse_file_tech: with
\* more than one technical each one needs datasets, and a dataset found
\* among those already associated raises
AssociationError(technicals) ==
  /\ Len(technicals) > 1
  /\ \E k \in 1..Len(technicals) :
       \/ ~technicals[k].hasDatasets
       \/ \E j \in 1..Len(technicals[k].datasets) :
            technicals[k].datasets[j] \in
              Range(AssociatedBefore(technicals, k)
                    \o SubSeq(technicals[k].datasets, 1, j - 1))

\* the exceptions of the parsers that validate_study catches
CaughtByValidate ==
  {"PhenotypeMalformedException", "PhenotypeNameException", "HPOException",
   "ParsingSexException", "AgeException", "RelationshipException",
   "TechnicalMalformedException", "UnknownPlatformException",
   "TechnicalAssociationException"}

\* what validate_study leaves unchanged
vsFrame ==
  <<ret, reqVars, r, ipVars, upVars, headers, ustVars, phenotypes_uuid,
    technicals_uuid, ri, rpi, fi, fileVars, log>>

\* return None, with a warning
VS_ReturnNone ==
  /\ pc' = "vs_returned" /\ study_tree' = None

\* an exception of a parser: caught ones give a warning and return None,
\* any other leaves validate_study
VS_Raise(exc) ==
  /\ raised' = exc
  /\ IF exc \in CaughtByValidate THEN VS_ReturnNone
     ELSE pc' = "crashed" /\ UNCHANGED study_tree

InitValidation ==
  /\ pc = "vs_begin" /\ ret = "" /\ req = NoReq /\ i = 0 /\ nAttempts = 0
  /\ lastOutcome = "none" /\ r = 0 /\ raised = ""
  /\ IP_ADDR = "" /\ ipCalls = 0 /\ failIP = ""
  /\ studies_to_upload \in {<<s>> : s \in RawStudies}
  /\ chunk_size = 16
  /\ headers = NoHeaders /\ existing_studies = {} /\ si = 1
  /\ is_existing_study = FALSE /\ study_tree = None
  /\ remote = Remote("", {}, {}, {})
  /\ updated_study_tree = None /\ udi = 0
  /\ phenotypes_uuid = {} /\ technicals_uuid = {}
  /\ pi = 0 /\ ri = 0 /\ rpi = 0 /\ ti = 0 /\ di = 0 /\ fi = 0
  /\ range_start = 0 /\ prev_position = 0 /\ fpos = 0 /\ read_len = 0
  /\ log = <<>>

\* the study tree validate_study starts from
VS_Begin ==
  /\ pc = "vs_begin"
  /\ study_tree' = [None EXCEPT !.name = studies_to_upload[si].name,
                                !.hasPhenotypes = TRUE, !.hasTechnicals = TRUE,
                                !.hasDatasets = TRUE]
  /\ di' = 1 /\ pc' = "vs_dirs"
  /\ UNCHANGED <<raised, pi, ti, vsFrame>>

\* one sub-directory of the study: its qualifying entries become a dataset,
\* more than 2 of them end the validation; after the last one a study
\* without datasets is refused
VS_Dir ==
  /\ pc = "vs_dirs"
  /\ LET s == studies_to_upload[si]
     IN  IF di > Len(s.dirs)
           THEN /\ IF study_tree.datasets = <<>> THEN VS_ReturnNone
                   ELSE pc' = "vs_pedigree" /\ UNCHANGED study_tree
                /\ pi' = 1 /\ UNCHANGED di
           ELSE LET files == SelectSeq(s.dirs[di].entries, Qualifying)
                IN  /\ IF TooManyFiles(files) THEN VS_ReturnNone
                       ELSE /\ pc' = "vs_dirs"
                            /\ study_tree' =
                                 IF files # <<>>
                                   THEN [study_tree EXCEPT !.datasets =
                                           Append(@, [name |-> s.dirs[di].name,
                                                      files |-> files])]
                                   ELSE study_tree
                    /\ di' = di + 1 /\ UNCHANGED pi
  /\ UNCHANGED <<raised, ti, vsFrame>>

\* parse_file_ped, one row at a time: the individual must be a dataset, the
\* age is parsed; after the last row the phenotypes and the relationships
\* are stored in the tree
VS_PedRow ==
  /\ pc = "vs_pedigree"
  /\ LET s == studies_to_upload[si]
     IN  IF ~s.hasPed
           THEN /\ pc' = "vs_technical" /\ ti' = 1
                /\ UNCHANGED <<study_tree, raised, pi>>
         ELSE IF pi > Len(s.rows)
           THEN /\ pc' = "vs_technical" /\ ti' = 1
                /\ study_tree' = [study_tree EXCEPT !.hasRelationships = TRUE]
                /\ UNCHANGED <<raised, pi>>
         ELSE IF s.rows[pi].individual_id \notin Names(study_tree.datasets)
           THEN VS_Raise("PhenotypeNameException") /\ UNCHANGED <<pi, ti>>
         ELSE LET a == parse_age(s.rows[pi].age)
              IN  IF a.exc # ""
                    THEN VS_Raise(a.exc) /\ UNCHANGED <<pi, ti>>
                    ELSE /\ study_tree' =
                              [study_tree EXCEPT !.phenotypes =
                                 Append(@, [name |-> s.rows[pi].individual_id,
                                            hasAge |-> a.hasAge, age |-> a.age])]
                         /\ pi' = pi + 1 /\ pc' = "vs_pedigree"
                         /\ UNCHANGED <<raised, ti>>
  /\ UNCHANGED <<di, vsFrame>>

\* parse_file_tech, one row at a time: the datasets it names must exist;
\* after the last row the association check, then the tree is returned
VS_TechRow ==
  /\ pc = "vs_technical"
  /\ LET s == studies_to_upload[si]
     IN  IF ~s.hasTech
           THEN pc' = "vs_returned" /\ UNCHANGED <<study_tree, raised, ti>>
         ELSE IF ti > Len(s.techRows)
           THEN IF AssociationError(study_tree.technicals)
                  THEN VS_Raise("TechnicalAssociationException") /\ UNCHANGED ti
                  ELSE pc' = "vs_returned" /\ UNCHANGED <<study_tree, raised, ti>>
         ELSE LET row == s.techRows[ti]
              IN  IF row.present
                     /\ \E k \in 1..Len(row.dataset_list) :
                          row.dataset_list[k] \notin Names(study_tree.datasets)
                    THEN VS_Raise("TechnicalAssociationException") /\ UNCHANGED ti
                    ELSE /\ study_tree' =
                              [study_tree EXCEPT !.technicals =
                                 Append(@, [name |-> row.name,
                                            hasDatasets |-> row.present,
                                            datasets |-> row.dataset_list])]
                         /\ ti' = ti + 1 /\ pc' = "vs_technical"
                         /\ UNCHANGED raised
  /\ UNCHANGED <<di, pi, vsFrame>>

NextValidation == VS_Begin \/ VS_Dir \/ VS_PedRow \/ VS_TechRow

ValidationSpec == InitValidation /\ [][NextValidation]_vars

-----------------------------------------------------------------------------
\* Properties of the run

\* a step in which one HTTP attempt is made
AttemptStep == nAttempts' = nAttempts + 1

\* a step in which a call of request() begins
CallStart == Len(log') = Len(log) + 1

\* the calls of the log, without their status
Calls == [k \in 1..Len(log) |-> log[k].call]

\* C1: when an attempt of a chunk PUT has failed with a transport exception and
\* the address resolved at that moment differs from the address recorded at the
\* start of the run, that chunk is not sent again and no further request is
\* made in the run.
C1_NoRequestAfterIPChange ==
  [][(req.kind = "chunk" /\ lastOutcome = "exc" /\ failIP # IP_ADDR)
       => (~AttemptStep /\ ~CallStart)]_vars

\* C2: a chunk PUT is attempted again only after the address has been resolved
\* again by the upload loop: once at the start of the run, and once more for
\* each failed attempt that is followed by a resend.
C2_ResendAfterIPCheck ==
  (req.kind = "chunk" /\ nAttempts >= 2)
    => ipCalls >= nAttempts

\* C3: a call of request() makes at most three HTTP attempts, an attempt after
\* the first is made only when the attempt before it raised an exception, and
\* once an attempt has produced a response, of any status, the call is over:
\* control is back at the caller with that response.
C3_AtMostThreeAttempts ==
  /\ [](nAttempts <= 3)
  /\ [](lastOutcome = "resp" => (pc # "request" /\ log[Len(log)].status = r))
  /\ [][AttemptStep => (nAttempts = 0 \/ lastOutcome = "exc")]_vars
  /\ [][(AttemptStep /\ lastOutcome' = "resp") => (pc' = ret /\ r' \in StatusCodes)]_vars

\* two attempts raised and the third one was answered
C3_Witness ==
  nAttempts = 3 /\ lastOutcome = "resp" /\ r = 500 /\ pc = ret

\* the status codes that the callers of request() accept for each request
ExpectedStatus(kind) ==
  CASE kind \in {"link_phenotype", "link_technical", "patch_status"} -> {204}
    [] kind = "upload_init" -> {201}
    [] kind = "chunk" -> {206, 200}
    [] OTHER -> {200}

\* the exception of each operation
ResourceException(kind) ==
  CASE kind \in {"create_study", "create_phenotype", "create_technical",
                 "create_dataset"} -> "ResourceCreationException"
    [] kind = "create_relationship" -> "RelationshipException"
    [] kind \in {"link_phenotype", "link_technical"} -> "ResourceAssignationException"
    [] kind = "upload_init" -> "UploadInitException"
    [] kind = "chunk" -> "UploadException"
    [] kind = "patch_status" -> "ResourceModificationException"
    [] OTHER -> "ResourceRetrievingException"

\* the places of update_study_tree and upload_study where a response is checked
StudyCallers ==
  {"ust_list_ret", "ust_datasets_ret", "ust_files_ret", "ust_phen_ret", "ust_tech_ret",
   "us_study_ret", "us_schema_ret", "us_phen_ret", "us_rel_ret", "us_tech_ret",
   "us_dataset_ret", "us_linkp_ret", "us_linkt_ret", "us_init_ret", "us_chunk_ret",
   "us_patch_ret"}

\* C4: when a request of a study's upload is answered with a status other than
\* the expected one (200 for queries and creations, 204 for links and the
\* PATCH, 201 for the upload init, 206 or 200 for a chunk), the caller raises
\* the exception of that operation in its next step, without sending the
\* request again, and no request is sent afterwards: the run is over.
C4_WrongStatusEndsStudy ==
  [][/\ (pc \in StudyCallers /\ r \notin ExpectedStatus(req.kind))
          => /\ raised' = ResourceException(req.kind)
             /\ pc' = "done"
             /\ ~AttemptStep /\ ~CallStart
     /\ pc # "done"]_vars

\* the link of a technical was answered 500 and the run ended with the
\* exception of the links
C4_Witness ==
  /\ pc = "done" /\ req.kind = "link_technical" /\ lastOutcome = "resp" /\ r = 500
  /\ raised = "ResourceAssignationException"

\* the exceptions that report a failed operation on a resource
ResourceErrors ==
  {"ResourceCreationException", "ResourceRetrievingException",
   "ResourceAssignationException", "ResourceModificationException",
   "UploadInitException", "UploadException", "RelationshipException"}

\* C5: when the three attempts of a call have all raised a transport
\* exception, the exception that ends the call is a resource error of the
\* operation (creation, retrieval, assignment, modification, upload init or
\* upload), and no other kind of error.
C5_ExhaustionIsResourceError ==
  (nAttempts = 3 /\ lastOutcome = "exc" /\ raised # "") => raised \in ResourceErrors

\* the chunk PUTs of the log
IsChunk(k) == log[k].call.kind = "chunk"

SameFile(a, b) == a.study = b.study /\ a.name = b.name /\ a.file = b.file

\* the earlier chunk PUTs of the file of the chunk PUT k, the position of k
\* among the chunk PUTs of its file, and the chunk PUT of that file before k
Earlier(k) == {j \in 1..(k - 1) : IsChunk(j) /\ SameFile(log[j].call, log[k].call)}

Ordinal(k) == Cardinality(Earlier(k)) + 1

Prev(k) == CHOOSE j \in Earlier(k) : \A j2 \in Earlier(k) : j2 <= j

ContentRange(k) == log[k].call.headers.ContentRange

\* the size on disk of the file that a chunk PUT belongs to
FileSize(c) ==
  LET s == CHOOSE x \in LocalStudies : x.name = c.study
      d == CHOOSE x \in Range(s.dirs) : x.name = c.name
  IN  d.files[c.file]

C6_Expected ==
  << <<0, 16 * MB, 40 * MB>>, <<16 * MB, 32 * MB, 40 * MB>>, <<32 * MB, 40 * MB, 40 * MB>> >>

\* C6: for a file of 40 MiB and a chunk size of 16 (MiB), as long as the server
\* has answered 206 to the chunks before, the chunk PUTs of the file are at
\* most three and carry the ranges 0-16/40, 16-32/40 and 32-40/40 (in MiB), in
\* this order; and for every file the start of each chunk after the first is
\* the end of the chunk before it.
C6_ChunkRanges ==
  \A k \in 1..Len(log) : IsChunk(k) =>
    /\ (/\ chunk_size = 16 /\ FileSize(log[k].call) = 40 * MB
        /\ \A j \in Earlier(k) : log[j].status = 206)
         => (Ordinal(k) <= 3 /\ ContentRange(k) = C6_Expected[Ordinal(k)])
    /\ Earlier(k) # {} => ContentRange(k)[1] = ContentRange(Prev(k))[2]

\* C7: whenever a chunk PUT is the latest request, its Content-Range has the
\* size of the file as total and min(start + chunk size, total) as end, its
\* start is above the starts of the earlier chunk PUTs of the same file, and
\* the request before it has been answered. The log only grows at its end, so
\* this holds of every chunk PUT of the run.
C7_ContentRange ==
  (log # <<>> /\ IsChunk(Len(log))) =>
    LET k == Len(log)
    IN  /\ ContentRange(k)[3] = FileSize(log[k].call)
        /\ ContentRange(k)[2] =
             Min(ContentRange(k)[1] + chunk_size * MB, ContentRange(k)[3])
        /\ \A j \in Earlier(k) : ContentRange(j)[1] < ContentRange(k)[1]
        /\ log[k - 1].status \in StatusCodes

\* the third chunk PUT of a file was answered, and its end is the size of the
\* file, below start + chunk size
C7_Witness ==
  /\ log # <<>> /\ IsChunk(Len(log)) /\ Ordinal(Len(log)) = 3
  /\ log[Len(log)].status = 200
  /\ ContentRange(Len(log))[2] = FileSize(req)
  /\ ContentRange(Len(log))[1] + chunk_size * MB > FileSize(req)

\* a step in which a call of request() for a chunk PUT begins
ChunkStart == CallStart /\ req'.kind = "chunk"

\* C8: a chunk PUT begins only as the first chunk of a file whose upload init
\* was answered 201, or after a chunk PUT of the same file answered 206; after
\* a 206 the loop goes on, and when bytes remain it reads them from the
\* current position and sends them; after a 200 the loop is left without an
\* exception; after any other status UploadException is raised and the run
\* ends.
C8_ChunkStatus ==
  [][/\ ChunkStart =>
          \/ req.kind = "upload_init" /\ r = 201 /\ SameFile(req, req')
          \/ req.kind = "chunk" /\ lastOutcome = "resp" /\ r = 206 /\ SameFile(req, req')
     /\ (pc = "us_chunk_ret" /\ r = 206) => (pc' = "us_chunk_loop" /\ raised' = "")
     /\ (pc = "us_chunk_loop" /\ chunk_size # 0 /\ fpos < FileSize(req))
          => (ChunkStart /\ req'.pos = fpos /\ req'.len > 0 /\ SameFile(req, req'))
     /\ (pc = "us_chunk_ret" /\ r = 200) => (raised' = "" /\ ~CallStart)
     /\ (pc = "us_chunk_ret" /\ r \notin {200, 206})
          => (raised' = "UploadException" /\ pc' = "done" /\ ~CallStart)]_vars

\* a chunk PUT answered 206 was followed by the next chunk PUT of the file,
\* which was answered 200 with bytes of the file unread, and the request after
\* it, the latest one, is not a chunk PUT
C8_Witness ==
  /\ Len(log) > 2 /\ ~IsChunk(Len(log))
  /\ LET k == Len(log) - 2
     IN  /\ IsChunk(k) /\ log[k].status = 206
         /\ IsChunk(k + 1) /\ log[k + 1].status = 200
         /\ log[k + 1].call.pos + log[k + 1].call.len < FileSize(log[k + 1].call)

IsPatch(k) == log[k].call.kind = "patch_status"

SameDataset(a, b) == a.study = b.study /\ a.name = b.name

\* the files of the dataset of a request
FilesOf(c) ==
  LET s == CHOOSE x \in LocalStudies : x.name = c.study
      d == CHOOSE x \in Range(s.dirs) : x.name = c.name
  IN  1..Len(d.files)

\* the chunk PUTs of file f of the dataset of request k that precede k
FileChunks(k, f) ==
  {j \in 1..(k - 1) : /\ IsChunk(j) /\ SameDataset(log[j].call, log[k].call)
                      /\ log[j].call.file = f}

Last(S) == CHOOSE j \in S : \A j2 \in S : j2 <= j

\* C9: whenever the PATCH of a dataset is the latest request, every file of the
\* dataset has had chunk PUTs, the last of them answered 200, and no PATCH of
\* that dataset was sent before; whenever the creation of a dataset is the
\* latest request, every dataset of the study created before it has had its
\* PATCH, answered 204; and a PATCH answered with another status ends the run
\* with ResourceModificationException.
C9_PatchAfterAllFiles ==
  /\ (log # <<>> /\ IsPatch(Len(log))) =>
       LET k == Len(log)
       IN  /\ \A f \in FilesOf(log[k].call) :
                FileChunks(k, f) # {} /\ log[Last(FileChunks(k, f))].status = 200
           /\ \A j \in 1..(k - 1) :
                ~(IsPatch(j) /\ SameDataset(log[j].call, log[k].call))
  /\ (log # <<>> /\ req.kind = "create_dataset") =>
       \A j \in 1..(Len(log) - 1) :
         (log[j].call.kind = "create_dataset" /\ log[j].call.study = req.study)
           => \E p \in j..Len(log) : /\ IsPatch(p) /\ SameDataset(log[p].call, log[j].call)
                                      /\ log[p].status = 204
  /\ (req.kind = "patch_status" /\ lastOutcome = "resp" /\ r # 204)
       => \/ pc = "us_patch_ret"
          \/ pc = "done" /\ raised = "ResourceModificationException"

\* the PATCH of a dataset of two files was sent and answered 204
C9_Witness ==
  /\ log # <<>> /\ IsPatch(Len(log)) /\ log[Len(log)].status = 204
  /\ FilesOf(req) = 1..2

\* the phase of a request within the upload of its study
Phase(k) ==
  LET kind == log[k].call.kind
  IN  CASE kind = "login" -> 0
        [] kind \in {"study_list", "study_datasets", "dataset_files", "study_phenotypes",
                     "study_technicals", "create_study"} -> 1
        [] kind \in {"get_schema", "create_phenotype"} -> 2
        [] kind = "create_relationship" -> 3
        [] kind = "create_technical" -> 4
        [] OTHER -> 5

\* C10: whenever a request is the latest one, no request of the same study
\* sent before it belongs to a later phase (the study, the phenotypes, the
\* relationships, the technicals, the datasets), and if it comes after the
\* study phase, the study was created, or found in the list of the studies,
\* with a response 200.
C10_PhaseOrder ==
  log # <<>> =>
    LET k == Len(log)
    IN  /\ \A j \in 1..(k - 1) :
             log[j].call.study = log[k].call.study => Phase(j) <= Phase(k)
        /\ Phase(k) >= 2 =>
             \E j \in 1..(k - 1) :
               /\ log[j].call.kind \in {"create_study", "study_list"}
               /\ log[j].call.study = log[k].call.study
               /\ log[j].status = 200

\* the only study of the run was created, and a phenotype, a relationship,
\* a technical and a dataset of it
C10_Witness ==
  /\ Len(studies_to_upload) = 1 /\ req.kind = "create_dataset"
  /\ {"create_study", "create_phenotype", "create_relationship", "create_technical"}
        \subseteq {log[k].call.kind : k \in 1..Len(log)}

\* the request before the latest one
PrevCall == log[Len(log) - 1].call

\* C11: whenever a request of a dataset other than its creation is the latest
\* one, the request before it belongs to the same dataset and is the one that
\* the order allows: the creation before the phenotype link; the creation or
\* the phenotype link before the technical link; before the upload init of
\* the first file the creation or a link, and before the upload init of a
\* later file a chunk PUT of the file before it; before a chunk PUT the upload
\* init or a chunk PUT of the same file; before the PATCH a chunk PUT of the
\* last file. Whenever the creation of a dataset is the latest request, the
\* request before it is no request of a dataset, or the PATCH of another
\* dataset.
C11_DatasetOrder ==
  (log # <<>> /\ Phase(Len(log)) = 5) =>
    LET c == req
        b == PrevCall
    IN  /\ c.kind # "create_dataset" => SameDataset(b, c)
        /\ c.kind = "create_dataset" =>
             \/ b.kind \notin {"create_dataset", "link_phenotype", "link_technical",
                               "upload_init", "chunk", "patch_status"}
             \/ b.kind = "patch_status" /\ ~SameDataset(b, c)
        /\ c.kind = "link_phenotype" => b.kind = "create_dataset"
        /\ c.kind = "link_technical" => b.kind \in {"create_dataset", "link_phenotype"}
        /\ c.kind = "upload_init" =>
             \/ c.file = 1 /\ b.kind \in {"create_dataset", "link_phenotype", "link_technical"}
             \/ c.file > 1 /\ b.kind = "chunk" /\ b.file = c.file - 1
        /\ c.kind = "chunk" => (b.kind \in {"upload_init", "chunk"} /\ b.file = c.file)
        /\ c.kind = "patch_status" =>
             (b.kind = "chunk" /\ b.file = Cardinality(FilesOf(c)))

\* the second dataset of a study is created after the PATCH of the first,
\* which had its phenotype and its technical linked before its file
C11_Witness ==
  /\ Len(log) > 2 /\ req.kind = "create_dataset"
  /\ PrevCall.kind = "patch_status" /\ PrevCall.study = req.study
  /\ \E j, k \in 1..Len(log) :
       /\ log[j].call.kind = "link_phenotype" /\ SameDataset(log[j].call, PrevCall)
       /\ log[k].call.kind = "link_technical" /\ SameDataset(log[k].call, PrevCall)

\* C12: the first request of a run is the login POST, and whenever a second
\* or later request has been sent, the login POST had been answered 200: a
\* login answered with another status, or whose attempts all failed, stays the
\* only request of the run.
C12_LoginFirst ==
  log # <<>> =>
    /\ log[1].call.kind = "login" /\ log[1].call.method = POST
    /\ Len(log) > 1 => (log[1].status = 200 /\ req.kind # "login")

\* the run is over after a login answered 500, or after three failed attempts
\* of the login, and the login is its only request
C12_Witness ==
  /\ pc = "done" /\ Len(log) = 1 /\ req.kind = "login"
  /\ \/ log[1].status = 500
     \/ log[1].status = 0 /\ nAttempts = 3 /\ lastOutcome = "exc"

\* C13: a resource error raised while a study of the batch is handled does not
\* end the run before the later studies of the batch: when the run is over
\* after such an error, the study that was being handled is the last one.
C13_LaterStudiesStillUploaded ==
  (pc = "done" /\ raised \in ResourceErrors /\ si \in 1..Len(studies_to_upload))
    => si = Len(studies_to_upload)

\* the exceptions of the checks of pedigree.txt and technical.txt against the
\* datasets that update_study_tree raises
ReconciliationErrors == {"PhenotypeNameException", "TechnicalAssociationException"}

\* C14: a phenotype-name or technical-association error raised while the tree
\* of a study is reconciled with the remote study only abandons that study:
\* the run does not end with it, neither handled nor unhandled.
C14_ValidationErrorSkipsStudy ==
  raised \in ReconciliationErrors => pc \notin {"done", "crashed"}

\* the local and the remote dataset names of the study being reconciled
LocalDatasets == Names(study_tree.datasets)

RemoteDatasets == {d.name : d \in remote.datasets}

\* update_study_tree has returned a plan to upload()
PlanReturned == pc = "up_confirm"

\* C15: when every local dataset of the study exists remotely, reconciliation
\* returns no plan; and no plan without datasets is ever returned.
C15_NothingToDo ==
  PlanReturned =>
    /\ ~(LocalDatasets \subseteq RemoteDatasets)
    /\ updated_study_tree.datasets # <<>>

\* C16: once the loop over the local datasets of update_study_tree is over,
\* whenever some local dataset is absent remotely (the remote study may hold
\* no dataset at all), the plan holds exactly the local datasets that are
\* absent remotely.
C16_PlanIsLocalMinusRemote ==
  (pc = "ust_phenotypes" /\ LocalDatasets \ RemoteDatasets # {})
    => /\ updated_study_tree.hasDatasets
       /\ Names(updated_study_tree.datasets) = LocalDatasets \ RemoteDatasets

\* the phenotypes of pedigree.txt of the study being handled
LocalPhenotypes ==
  IF studies_to_upload[si].hasPed THEN studies_to_upload[si].phenotypes ELSE <<>>

\* a local phenotype that is not remote and whose dataset is not in the plan
OrphanPhenotype ==
  \E k \in 1..Len(LocalPhenotypes) :
    /\ LocalPhenotypes[k].name \notin remote.phenotypes
    /\ LocalPhenotypes[k].name \notin Pending

\* C17: in a plan returned by update_study_tree every local phenotype is
\* present, carries the remote uuid exactly when a remote phenotype has its
\* name, and otherwise has the name of a dataset of the plan; no phenotype
\* that exists remotely is sent in a creation POST; and PhenotypeNameException
\* is raised only for a local phenotype that is not remote and whose dataset
\* is not in the plan.
C17_PhenotypesOfPlan ==
  /\ PlanReturned =>
       \A k \in 1..Len(LocalPhenotypes) :
         \E j \in 1..Len(updated_study_tree.phenotypes) :
           LET p == updated_study_tree.phenotypes[j]
           IN  /\ p.name = LocalPhenotypes[k].name
               /\ p.uuid = (p.name \in remote.phenotypes)
               /\ p.uuid \/ p.name \in Pending
  /\ (req.kind = "create_phenotype" /\ req.study = remote.study)
       => req.name \notin remote.phenotypes
  /\ raised = "PhenotypeNameException" => OrphanPhenotype

\* a plan was returned with a phenotype that exists remotely and another one
\* to be created, and the latter is being created
C17_Witness ==
  /\ req.kind = "create_phenotype" /\ req.study = remote.study
  /\ \E j, k \in 1..Len(study_tree.phenotypes) :
       study_tree.phenotypes[j].uuid /\ ~study_tree.phenotypes[k].uuid

\* the relationships of pedigree.txt of the study being handled, and its
\* phenotypes that do not exist remotely
LocalRelationships ==
  IF studies_to_upload[si].hasPed THEN studies_to_upload[si].relationships ELSE <<>>

PendingPhenotypes ==
  {LocalPhenotypes[k].name : k \in 1..Len(LocalPhenotypes)} \ remote.phenotypes

\* C18: a plan returned by update_study_tree holds no relationships when no
\* local phenotype is to be created, and otherwise exactly the local
\* relationships whose child is to be created, in their order and with all
\* their parents; no relationship POST is sent for a child that exists
\* remotely.
C18_RelationshipsOfPlan ==
  /\ PlanReturned =>
       IF PendingPhenotypes = {}
         THEN ~updated_study_tree.hasRelationships
              /\ updated_study_tree.relationships = <<>>
         ELSE \A k \in 1..Len(LocalRelationships) :
                LET x == LocalRelationships[k]
                    kept == {j \in 1..Len(updated_study_tree.relationships) :
                               updated_study_tree.relationships[j] = x}
                IN  IF x.son \in PendingPhenotypes
                      THEN Cardinality(kept) = 1
                      ELSE \A j \in 1..Len(updated_study_tree.relationships) :
                             updated_study_tree.relationships[j].son # x.son
  /\ PlanReturned =>
       \A j \in 1..Len(updated_study_tree.relationships) :
         \E k \in 1..Len(LocalRelationships) :
           updated_study_tree.relationships[j] = LocalRelationships[k]
  /\ (req.kind = "create_relationship" /\ req.study = remote.study)
       => req.name \notin remote.phenotypes

\* a plan was returned with a phenotype to be created, and the local
\* relationship of a child that exists remotely is not in it
C18_Witness ==
  /\ PlanReturned /\ PendingPhenotypes # {}
  /\ LocalRelationships # <<>> /\ updated_study_tree.relationships = <<>>

\* the technicals of technical.txt of the study being handled
LocalTechnicals ==
  IF studies_to_upload[si].hasTech THEN studies_to_upload[si].technicals ELSE <<>>

\* the datasets that a technical declares and that are in the plan
Scoped(t) == SelectSeq(t.datasets, LAMBDA d : d \in Pending)

\* the places of a technical in the plan
PlanEntries(t) ==
  {j \in 1..Len(updated_study_tree.technicals) :
     updated_study_tree.technicals[j].name = t.name}

\* C19: in a plan returned by update_study_tree a local technical that exists
\* remotely and declares datasets is absent when none of them is in the plan,
\* and otherwise present, each time with the remote uuid and with exactly its
\* declared datasets that are in the plan; no technical that exists remotely
\* is sent in a creation POST.
C19_RemoteTechnicalsOfPlan ==
  /\ PlanReturned =>
       \A k \in 1..Len(LocalTechnicals) :
         LET t == LocalTechnicals[k]
         IN  (t.name \in remote.technicals /\ t.hasDatasets) =>
               IF Scoped(t) = <<>>
                 THEN PlanEntries(t) = {}
                 ELSE /\ PlanEntries(t) # {}
                      /\ \A j \in PlanEntries(t) :
                           /\ updated_study_tree.technicals[j].uuid
                           /\ updated_study_tree.technicals[j].datasets = Scoped(t)
  /\ (req.kind = "create_technical" /\ req.study = remote.study)
       => req.name \notin remote.technicals

\* a plan was returned for a study with two remote technicals: one is absent,
\* the other is kept with one of the two datasets it declares
C19_Witness ==
  /\ PlanReturned
  /\ \E j, k \in 1..Len(LocalTechnicals) :
       LET t == LocalTechnicals[j]
           u == LocalTechnicals[k]
       IN  /\ {t.name, u.name} \subseteq remote.technicals
           /\ t.hasDatasets /\ Scoped(t) = <<>> /\ PlanEntries(t) = {}
           /\ Len(u.datasets) = 2 /\ Len(Scoped(u)) = 1 /\ PlanEntries(u) # {}

\* C20: a local technical that does not exist remotely and declares datasets
\* makes update_study_tree raise TechnicalAssociationException exactly when
\* none of its declared datasets is in the plan; when at least one is, the
\* technical is in the returned plan, to be created, with its declared
\* datasets that are in the plan.
C20_NewTechnicalsOfPlan ==
  /\ raised = "TechnicalAssociationException" =>
       \E k \in 1..Len(LocalTechnicals) :
         LET t == LocalTechnicals[k]
         IN  /\ t.name \notin remote.technicals /\ t.hasDatasets
             /\ Scoped(t) = <<>>
  /\ PlanReturned =>
       \A k \in 1..Len(LocalTechnicals) :
         LET t == LocalTechnicals[k]
         IN  (t.name \notin remote.technicals /\ t.hasDatasets) =>
               /\ Scoped(t) # <<>>
               /\ PlanEntries(t) # {}
               /\ \A j \in PlanEntries(t) :
                    /\ ~updated_study_tree.technicals[j].uuid
                    /\ updated_study_tree.technicals[j].datasets = Scoped(t)

(* ---------------------------------------------------------------------- *)
(* Existing resources are not created again                                *)
(* ---------------------------------------------------------------------- *)
\* the call most recently entered
LastCall == log[Len(log)].call

\* the calls of the run that create a resource
Creations == {"create_study", "create_dataset", "create_phenotype", "create_technical"}

\* C21: for a study that the server listed at the start of the run no study
\* creation POST is sent, and no creation POST is sent for a dataset, a
\* phenotype or a technical whose name the server holds for that study.
C21_NoDuplicateCreation ==
  (Len(log) > 0 /\ LastCall.study \in existing_studies
     /\ LastCall.study = remote.study) =>
    /\ LastCall.kind # "create_study"
    /\ LastCall.kind = "create_dataset" =>
         LastCall.name \notin {d.name : d \in remote.datasets}
    /\ LastCall.kind = "create_phenotype" => LastCall.name \notin remote.phenotypes
    /\ LastCall.kind = "create_technical" => LastCall.name \notin remote.technicals

\* a dataset of an existing study is created after one of its phenotypes,
\* while the server holds another dataset and another phenotype of the study
C21_Witness ==
  /\ Len(log) > 0 /\ LastCall.study \in existing_studies
  /\ LastCall.kind = "create_dataset"
  /\ remote.datasets # {} /\ remote.phenotypes # {}
  /\ \E k \in 1..Len(log) :
       log[k].call.kind = "create_phenotype" /\ log[k].call.study = LastCall.study

(* ---------------------------------------------------------------------- *)
(* Validation of the local study                                           *)
(* ---------------------------------------------------------------------- *)
\* validate_study returned a study tree
TreeReturned == pc = "vs_returned" /\ study_tree # None

\* all the rows of technical.txt were parsed
TechnicalsParsed ==
  /\ studies_to_upload[si].hasTech /\ ti > Len(studies_to_upload[si].techRows)

\* C22: every technical list accepted by the validation with more than one
\* technical has a datasets list in each technical and no dataset in the
\* lists of two technicals; a list of two technicals one of which omits its
\* datasets is rejected with TechnicalAssociationException: no tree is
\* returned for the study.
C22_TechnicalAssociation ==
  /\ (TreeReturned /\ Len(study_tree.technicals) > 1) =>
       /\ \A k \in 1..Len(study_tree.technicals) : study_tree.technicals[k].hasDatasets
       /\ \A j, k \in 1..Len(study_tree.technicals) :
            j # k => Range(study_tree.technicals[j].datasets)
                       \cap Range(study_tree.technicals[k].datasets) = {}
  /\ (pc = "vs_returned" /\ TechnicalsParsed
        /\ Len(studies_to_upload[si].techRows) = 2
        /\ \E k \in 1..2 : ~studies_to_upload[si].techRows[k].present) =>
       (study_tree = None /\ raised = "TechnicalAssociationException")

\* a file with two technicals, the second one without datasets, is rejected
\* by the association check
C22_Witness ==
  /\ pc = "vs_returned" /\ TechnicalsParsed
  /\ Len(studies_to_upload[si].techRows) = 2
  /\ studies_to_upload[si].techRows[1].present
  /\ ~studies_to_upload[si].techRows[2].present
  /\ study_tree = None /\ raised = "TechnicalAssociationException"

\* a regular file named *.fastq.gz that is not empty
IsFastq(f) == f.is_file /\ f.fastq_gz /\ f.st_size >= 1

\* the entries of a directory of the study that are such files
FastqsOf(d) == SelectSeq(d.entries, IsFastq)

StudyDirs == Range(studies_to_upload[si].dirs)

\* C23: every study tree that validate_study returns has at least one
\* dataset, and each of its datasets has 1 or 2 files, all of them regular
\* files named *.fastq.gz of size >= 1; a directory with exactly 2 such
\* files is retained as a dataset, and a study with a directory that holds
\* 3 or more of them yields no study tree.
C23_DatasetsOfTree ==
  /\ TreeReturned =>
       /\ study_tree.datasets # <<>>
       /\ \A k \in 1..Len(study_tree.datasets) :
            /\ Len(study_tree.datasets[k].files) \in {1, 2}
            /\ \A j \in 1..Len(study_tree.datasets[k].files) :
                 IsFastq(study_tree.datasets[k].files[j])
       /\ \A d \in StudyDirs :
            Len(FastqsOf(d)) = 2 =>
              \E k \in 1..Len(study_tree.datasets) :
                 /\ study_tree.datasets[k].name = d.name
                 /\ study_tree.datasets[k].files = FastqsOf(d)
  /\ (\E d \in StudyDirs : Len(FastqsOf(d)) >= 3) => ~TreeReturned

\* a tree is returned for a study with a directory of three entries, two of
\* which are kept as the files of its dataset
C23_Witness ==
  /\ TreeReturned
  /\ \E d \in StudyDirs :
       /\ Len(d.entries) = 3 /\ Len(FastqsOf(d)) = 2
       /\ \E k \in 1..Len(study_tree.datasets) :
            study_tree.datasets[k].name = d.name /\ Len(study_tree.datasets[k].files) = 2

\* the age column of a row holds a value: it is not missing, empty, "-" or "N/A"
AgePresent(row) ==
  /\ row.age.present
  /\ row.age.chars \notin {<<>>, <<"-">>, <<"N", "/", "A">>}

\* C24: a pedigree row whose age column is present is parsed with that age
\* only if the value is a non-negative integer; for every other value,
\* negative or not numeric, the parse fails with AgeException and the study
\* is abandoned: validate_study returns no tree.
C24_AgeParsing ==
  LET s == studies_to_upload[si]
  IN  (s.hasPed /\ pc \in {"vs_pedigree", "vs_technical", "vs_returned", "crashed"}) =>
        /\ \A k \in 1..Len(study_tree.phenotypes) :
             AgePresent(s.rows[k]) =>
               /\ study_tree.phenotypes[k].hasAge
               /\ study_tree.phenotypes[k].age >= 0
               /\ IsDigits(s.rows[k].age.chars)
                    => study_tree.phenotypes[k].age = DigitsValue(s.rows[k].age.chars)
        /\ (raised # "" /\ pi \in 1..Len(s.rows) /\ AgePresent(s.rows[pi])
              /\ s.rows[pi].individual_id \in {d.name : d \in StudyDirs}) =>
             (raised = "AgeException" /\ pc = "vs_returned" /\ study_tree = None)

(* ---------------------------------------------------------------------- *)
(* The plan returned by the reconciliation                                 *)
(* ---------------------------------------------------------------------- *)
\* C25: every plan that update_study_tree returns has the fields of a local
\* study tree: its name, datasets, phenotypes and technicals are present
\* (possibly empty), also for a study without pedigree.txt or technical.txt.
C25_PlanHasAllFields ==
  PlanReturned =>
    /\ updated_study_tree.name = studies_to_upload[si].name
    /\ updated_study_tree.hasDatasets
    /\ updated_study_tree.hasPhenotypes
    /\ updated_study_tree.hasTechnicals

\* the local tree as validate_study built it, before the reconciliation
TreeBefore == validate_study(studies_to_upload[si])

\* C26: reconciliation leaves the local study tree unchanged but for the
\* uuid it adds to the phenotypes and technicals that exist remotely: when
\* it returns a plan, the datasets, the relationships and the dataset list
\* that each technical declares are those of the tree before it.
C26_LocalTreeUnchanged ==
  PlanReturned =>
    /\ study_tree.datasets = TreeBefore.datasets
    /\ study_tree.hasRelationships = TreeBefore.hasRelationships
    /\ study_tree.relationships = TreeBefore.relationships
    /\ \A k \in 1..Len(TreeBefore.technicals) :
         study_tree.technicals[k].datasets = TreeBefore.technicals[k].datasets

\* the plan as a function of the local tree and of the names that the server
\* holds for the study: the names of its datasets, of its phenotypes and of
\* its technicals, without the status of the datasets and without their files
PlanOf(tree, dataset_names, phenotype_names, technical_names) ==
  LET datasets == SelectSeq(tree.datasets, LAMBDA d : d.name \notin dataset_names)
      hasPhen == tree.phenotypes # <<>>
      phenotypes == IF hasPhen THEN MarkPhenotypes(tree.phenotypes, phenotype_names)
                    ELSE <<>>
      to_upload == {p.name : p \in {q \in Range(phenotypes) : ~q.uuid}}
      hasRel == tree.hasRelationships /\ to_upload # {}
      hasTech == tree.technicals # <<>>
  IN  [name |-> tree.name, study_uuid |-> TRUE,
       hasDatasets |-> TRUE, datasets |-> datasets,
       hasPhenotypes |-> hasPhen, phenotypes |-> phenotypes,
       hasRelationships |-> hasRel,
       relationships |-> IF hasRel THEN KeptRelationships(tree.relationships, to_upload)
                         ELSE <<>>,
       hasTechnicals |-> hasTech,
       technicals |-> IF hasTech
                        THEN UpdateTechnicals(tree.technicals, technical_names,
                                              Names(datasets), 1, <<>>).technicals
                        ELSE <<>>]

\* C27: the plan that the reconciliation returns does not depend on the
\* status of the remote datasets nor on their remote files: it is determined
\* by the local tree and the names the server holds, so that two remote
\* states that differ only in dataset status and file lists give the same
\* plan.
C27_PlanIgnoresStatus ==
  PlanReturned =>
    updated_study_tree =
      PlanOf(TreeBefore, RemoteDatasets, remote.phenotypes, remote.technicals)

\* a plan is returned after the file list of a remote dataset whose status
\* is not set was fetched
C27_Witness ==
  /\ PlanReturned
  /\ \E rd \in remote.datasets : ~rd.status /\ rd.name \in Names(TreeBefore.datasets)
  /\ \E k \in 1..Len(log) : log[k].call.kind = "dataset_files" /\ log[k].status = 200

(* ---------------------------------------------------------------------- *)
(* The Content-Range header                                                *)
(* ---------------------------------------------------------------------- *)
\* C28: the start of the Content-Range of every chunk PUT is the offset in
\* the file at which the data of that chunk were read, for the first chunk
\* of a file and for every later one.
C28_RangeStartIsOffset ==
  (log # <<>> /\ IsChunk(Len(log))) =>
    ContentRange(Len(log))[1] = log[Len(log)].call.pos

\* C29: for every positive chunk size and every file of size >= 1, the
\* Content-Range of every chunk PUT satisfies 0 <= start <= end <= total.
C29_RangeOrdered ==
  (log # <<>> /\ IsChunk(Len(log)) /\ chunk_size > 0
     /\ FileSize(log[Len(log)].call) >= 1) =>
    /\ 0 <= ContentRange(Len(log))[1]
    /\ ContentRange(Len(log))[1] <= ContentRange(Len(log))[2]
    /\ ContentRange(Len(log))[2] <= ContentRange(Len(log))[3]

\* C30: only the chunk PUTs carry a Content-Range header: every other
\* request, also those sent after the upload of a file (the PATCH of the
\* dataset, the requests of later datasets, files and studies), has none.
C30_RangeOnlyOnChunks ==
  (log # <<>> /\ ~IsChunk(Len(log))) => ContentRange(Len(log)) = NoRange

(* ---------------------------------------------------------------------- *)
(* Technicals of the plan                                                  *)
(* ---------------------------------------------------------------------- *)
\* C31: in every plan that the reconciliation returns each technical
\* appears at most once, and during the upload of one study at most one
\* creation POST is sent for each technical name.
C31_TechnicalOnce ==
  /\ PlanReturned =>
       \A j, k \in 1..Len(updated_study_tree.technicals) :
          j # k => updated_study_tree.technicals[j].name
                     # updated_study_tree.technicals[k].name
  /\ (log # <<>> /\ LastCall.kind = "create_technical") =>
       \A k \in 1..(Len(log) - 1) :
          ~(/\ log[k].call.kind = "create_technical"
            /\ log[k].call.study = LastCall.study
            /\ log[k].call.name = LastCall.name)

(* ---------------------------------------------------------------------- *)
(* The end of a file upload                                                *)
(* ---------------------------------------------------------------------- *)
\* C32: when the chunk loop of a file is left, the file is completed only if
\* the last response is the 200 of a chunk PUT; when the data are exhausted
\* after a 206, or no chunk was sent at all, UploadException is raised and
\* the run ends there: neither the PATCH of the dataset nor any request for a
\* later file or dataset begins.
C32_FileCompletion ==
  [][/\ pc = "us_file_end" =>
          IF LastCall.kind = "chunk" /\ log[Len(log)].status = 200
            THEN pc' = "us_file_loop" /\ fi' = fi + 1 /\ raised' = ""
            ELSE raised' = "UploadException" /\ pc' = "done" /\ log' = log
     /\ CallStart => raised = ""]_vars

\* the data of a file were exhausted after a chunk answered 206, and the run
\* ended with UploadException
C32_Witness ==
  /\ pc = "done" /\ raised = "UploadException"
  /\ log # <<>> /\ LastCall.kind = "chunk" /\ log[Len(log)].status = 206
  /\ fpos = FileSize(LastCall) /\ read_len = 0

(* ---------------------------------------------------------------------- *)
(* Termination of a file upload                                            *)
(* ---------------------------------------------------------------------- *)
\* the number of chunks of a file: ceil(filesize / chunk)
ChunksOf(filesize) == (filesize + chunk - 1) \div chunk

\* the chunk loop of a file is running
InChunkLoop ==
  \/ pc \in {"us_chunk_loop", "us_chunk_ret"}
  \/ pc \in {"request", "request_raise"} /\ req.kind = "chunk"

\* the chunk loop has been left: by a break or the end of the data, by an
\* exception that ended the run, or by the return after a changed address
ChunkLoopLeft == pc \in {"us_file_end", "done", "crashed", "up_study_loop"}

\* C33: every file upload terminates. For a positive chunk size, whatever
\* the status codes and the transport failures, the chunk PUTs of a file are
\* at most ceil(filesize / chunk) calls of at most 3 attempts each, and the
\* chunk loop is always left, by completion, by an exception or by an abort.
C33_FileUploadTerminates ==
  /\ []((log # <<>> /\ IsChunk(Len(log)) /\ chunk_size > 0) =>
          /\ Ordinal(Len(log)) <= ChunksOf(FileSize(LastCall))
          /\ nAttempts <= 3)
  /\ (InChunkLoop ~> ChunkLoopLeft)

\* the last chunk of a file of three chunks has failed twice and is about to
\* be attempted for the third time
C33_Witness ==
  /\ log # <<>> /\ IsChunk(Len(log)) /\ chunk_size > 0
  /\ pc = "request" /\ nAttempts = 2 /\ lastOutcome = "exc"
  /\ Ordinal(Len(log)) = 3 /\ ChunksOf(FileSize(LastCall)) = 3

(* ---------------------------------------------------------------------- *)
(* A study that is already uploaded                                        *)
(* ---------------------------------------------------------------------- *)
\* the names of the sub-directories of a local study
DirNames(s) == {d.name : d \in Range(s.dirs)}

\* the study exists remotely with exactly the datasets of its directory
AlreadyUploaded(s) == s.name = remote.study /\ DirNames(s) = RemoteDatasets

\* C34: a local study whose name exists remotely and whose sub-directory
\* names are the names of the remote datasets of that study is skipped: the
\* only request sent for it is the query of its dataset list (no further
\* reconciliation query, no creation, link, upload or PATCH), and when that
\* query is answered the run goes on with the next study of the batch.
C34_UploadedStudySkipped ==
  [][/\ (CallStart /\ si \in 1..Len(studies_to_upload)
           /\ AlreadyUploaded(studies_to_upload[si]))
          => req'.kind = "study_datasets"
     /\ (pc = "up_datasets_ret" /\ r = 200 /\ AlreadyUploaded(studies_to_upload[si]))
          => (pc' = "up_study_loop" /\ si' = si + 1 /\ raised' = "" /\ log' = log)]_vars

\* the first study of the batch was skipped after its dataset list was
\* fetched, and a request for the second study has begun
C34_Witness ==
  /\ si = 2 /\ Len(studies_to_upload) = 2 /\ AlreadyUploaded(studies_to_upload[1])
  /\ log # <<>> /\ LastCall.study = studies_to_upload[2].name
  /\ \E k \in 1..Len(log) :
       /\ log[k].call.kind = "study_datasets" /\ log[k].status = 200
       /\ log[k].call.study = studies_to_upload[1].name

=============================================================================
